---- MODULE Spec2Model ----
(***************************************************************************)
(* Request-scoped context for a NestJS application (nest-req-ctx).         *)
(*                                                                         *)
(* The model has three layers:                                             *)
(*   - JavaScript values and the Map-backed store of RequestContextService *)
(*     (get / set / has / delete / getByPath / getAll / clear, setRequest);*)
(*   - AsyncLocalStorage: every chain of execution carries the store that  *)
(*     was ambient where the chain was scheduled; run(store, cb) makes the *)
(*     store ambient for cb and its asynchronous descendants only;         *)
(*   - the request pipeline of the framework: middleware, guard,           *)
(*     interceptor, handler, wired by RequestContextModule.                *)
(* One action is one run-to-suspension segment of the single-threaded      *)
(* event loop, so requests interleave exactly at their suspension points.  *)
(***************************************************************************)
EXTENDS Integers, Sequences, FiniteSets, TLC

\* ------------------------------------------------------------------ bounds
NumReqs == 2
\* engine calls made in all by the tasks that use the engine directly
MaxOps == 4
\* RequestContextService objects that exist in the process
NumInstances == 2
\* characters of the longest path given to getByPath
MaxPathLen == 5
\* requests that arrive in the runs that are checked for progress
NumLiveReqs == 1

Reqs == 1..NumReqs
Instances == 1..NumInstances

VARIABLES
  opts,      \* the resolved module options, shared read-only by all requests
  async,     \* TRUE when the module was configured with forRootAsync
  platform,  \* httpAdapterHost.httpAdapter.getType()
  guardSrc,  \* which RequestContextGuard source the build contains
  nextThrows, \* TRUE when what next() starts throws out of the call next()
  instance,  \* the static field RequestContextService.instance
  stores,    \* heap of Map objects created by run(); a store id is an index
  pc,        \* per request: the pipeline stage about to run
  excluded,  \* per request: the route matches an exclude pattern
  stack,     \* per request: scopes ambient in the framework's chain, innermost last
  opened,    \* per request: the scopes its initializers opened, in order
  hooks,     \* per request: the setup hook invocations, in call order
  signals,   \* per request: what the initializers signalled to the framework
  seen,      \* per request: what the route handler read when it ran
  opsLeft,   \* engine calls that application code may still make
  last       \* the last engine call of application code and its result

vars == <<opts, async, platform, guardSrc, nextThrows, instance, stores, pc, excluded, stack,
          opened, hooks, signals, seen, opsLeft, last>>
config == <<opts, async, platform, guardSrc, nextThrows, instance>>

\* ------------------------------------------------------- JavaScript values
Undefined == [t |-> "undefined"]
Err(name) == [t |-> "error", s |-> name]
Null == [t |-> "null"]
Str(s) == [t |-> "string", s |-> s]
Obj(f) == [t |-> "object", f |-> f]
True == [t |-> "boolean", s |-> "true"]
False == [t |-> "boolean", s |-> "false"]
Bool(b) == IF b THEN True ELSE False
EmptyMap == [k \in {} |-> Undefined]

\* current[parts[i]] on a value that is neither null nor undefined
Prop(value, name) ==
  IF value.t = "object" /\ name \in DOMAIN value.f THEN value.f[name] ELSE Undefined

\* ----------------------------------------------------------------- adapters
expressAdapter == [t |-> "adapter", s |-> "express"]
fastifyAdapter == [t |-> "adapter", s |-> "fastify"]

\* (variant) detection that takes either of the two fields for a Fastify request
detectAdapterTypeEither(request) ==
  IF request # Undefined /\ request # Null
     /\ (Prop(request, "raw") # Undefined \/ Prop(request, "server") # Undefined)
  THEN "fastify" ELSE "express"
detectAdapterType(request) ==
  IF request # Undefined /\ request # Null
     /\ Prop(request, "raw") # Undefined /\ Prop(request, "server") # Undefined
  THEN "fastify" ELSE "express"

\* (variant) a selection that never looks at the request
getAdapterByTypeOnly(type, request) ==
  IF type = "fastify" THEN fastifyAdapter ELSE expressAdapter
getAdapter(type, request) ==
  IF type = "auto" /\ request # Undefined /\ request # Null
  THEN (IF detectAdapterType(request) = "fastify" THEN fastifyAdapter ELSE expressAdapter)
  ELSE IF type = "fastify" THEN fastifyAdapter ELSE expressAdapter

\* --------------------------------------------------- RequestContextService
INTERNAL_KEYS == [REQUEST |-> "__request__", ADAPTER |-> "__adapter__",
                  ADAPTER_TYPE |-> "__adapter_type__"]
ReservedKeys == {INTERNAL_KEYS.REQUEST, INTERNAL_KEYS.ADAPTER, INTERNAL_KEYS.ADAPTER_TYPE}
UserKeys == {"requestId", "x", "__custom"}
Keys == UserKeys \cup ReservedKeys

\* key.startsWith('__')
startsWithUnderscores(key) == key \in ReservedKeys \cup {"__custom"}

\* asyncLocalStorage.getStore(): amb is the store carried by the executing
\* chain, NoStore when the chain descends from no run() callback
NoStore == 0
\* (variant) the current store kept in one field shared by all chains and
\* replaced by every run(), instead of being carried by the chain
getStoreShared(amb) == IF stores = <<>> THEN NoStore ELSE Len(stores)
getStore(amb) == amb

isActive(amb) == getStore(amb) # NoStore

\* new Map(), then one store.set per own entry of initialStore
newStore(initialStore) == initialStore

\* a reference to the RequestContextService object i
Ref(i) == [t |-> "service", s |-> ToString(i)]
\* the static instance field before any onModuleInit (undefined); the static
\* methods getInstance() and hasInstance() read the field in `inst`
NoInstance == 0
\* (variant) getInstance() that returns the field without the check
getInstanceUnchecked(inst) == IF inst = NoInstance THEN Undefined ELSE Ref(inst)
getInstance(inst) == IF inst = NoInstance THEN Err("NotInitialized") ELSE Ref(inst)
hasInstance(inst) == inst # NoInstance

\* set(): the error case is setThrows, the store.set(key, value) case is set
\* (variant) set() that returns silently when there is no store
setNeverThrows(amb) == FALSE
setThrows(amb) == getStore(amb) = NoStore
mapSet(m, key, value) == [k \in DOMAIN m \cup {key} |-> IF k = key THEN value ELSE m[k]]
set(st, amb, key, value) ==
  [st EXCEPT ![getStore(amb)] = mapSet(@, key, value)]

\* (variant) get() that answers null, not undefined, outside a scope
getNull(st, amb, key) ==
  IF getStore(amb) = NoStore THEN Null
  ELSE IF key \in DOMAIN st[getStore(amb)] THEN st[getStore(amb)][key] ELSE Undefined
get(st, amb, key) ==
  IF getStore(amb) = NoStore THEN Undefined
  ELSE IF key \in DOMAIN st[getStore(amb)] THEN st[getStore(amb)][key] ELSE Undefined

has(st, amb, key) ==
  IF getStore(amb) = NoStore THEN FALSE ELSE key \in DOMAIN st[getStore(amb)]

\* delete(): the returned boolean is has(); the store afterwards is delete
mapDelete(m, key) == [k \in DOMAIN m \ {key} |-> m[k]]
delete(st, amb, key) ==
  IF getStore(amb) = NoStore THEN st
  ELSE [st EXCEPT ![getStore(amb)] = mapDelete(@, key)]

\* (variant) getAll() that copies every entry of the store
getAllEntries(st, amb) ==
  IF getStore(amb) = NoStore THEN EmptyMap ELSE st[getStore(amb)]
getAll(st, amb) ==
  IF getStore(amb) = NoStore THEN EmptyMap
  ELSE [k \in {j \in DOMAIN st[getStore(amb)] : ~startsWithUnderscores(j)}
          |-> st[getStore(amb)][k]]

\* (variant) clear() that removes the user entries and keeps the reserved ones
clearUserEntries(st, amb) ==
  IF getStore(amb) = NoStore THEN st
  ELSE [st EXCEPT ![getStore(amb)] = [k \in DOMAIN @ \cap ReservedKeys |-> @[k]]]
clear(st, amb) ==
  IF getStore(amb) = NoStore THEN st ELSE [st EXCEPT ![getStore(amb)] = EmptyMap]

\* path.split('.'): a path is a sequence of tokens, "." the separator; the
\* tokens between two separators concatenate to one part
RECURSIVE splitFrom(_, _, _)
splitFrom(path, i, cur) ==
  IF i > Len(path) THEN <<cur>>
  ELSE IF path[i] = "." THEN <<cur>> \o splitFrom(path, i + 1, "")
  ELSE splitFrom(path, i + 1, cur \o path[i])
split(path) == splitFrom(path, 1, "")

RECURSIVE walk(_, _, _)
walk(current, parts, i) ==
  IF i <= Len(parts) /\ current # Undefined /\ current # Null
  THEN walk(Prop(current, parts[i]), parts, i + 1)
  ELSE current

getByPath(st, amb, path) ==
  IF path = <<>> THEN Undefined
  ELSE walk(get(st, amb, split(path)[1]), split(path), 2)

setRequest(st, amb, request, adapterType) ==
  set(set(set(st, amb, INTERNAL_KEYS.REQUEST, request),
          amb, INTERNAL_KEYS.ADAPTER_TYPE, Str(adapterType)),
      amb, INTERNAL_KEYS.ADAPTER, getAdapter(adapterType, request))

getRequest(st, amb) == get(st, amb, INTERNAL_KEYS.REQUEST)

\* RequestContextService.getAdapter() (the cached adapter; the factory
\* function of the same name is getAdapter above) and getAdapterType()
getCachedAdapter(st, amb) == get(st, amb, INTERNAL_KEYS.ADAPTER)

getAdapterType(st, amb) == get(st, amb, INTERNAL_KEYS.ADAPTER_TYPE)

\* ------------------------------------------------------------ configuration
\* RequestContextModuleOptions after applyDefaults, plus how it was supplied
\* (forRoot or forRootAsync) and the kind of setup hook that is configured:
\*   none            no setup function
\*   sync            stores requestId and returns undefined
\*   throw           throws before storing anything
\*   promise         async function: suspends, then stores requestId
\*   reject          async function: suspends, then throws
\*   thenable        returns a non-native thenable that later stores requestId
\*   thenableReject  returns a non-native thenable that later rejects
DEFAULT_MODULE_OPTIONS == [adapter |-> "auto", setupType |-> "middleware", setRequest |-> TRUE]
SetupTypes == {"middleware", "guard", "interceptor"}
AdapterTypes == {"auto", "express", "fastify"}
HookKinds == {"none", "sync", "throw", "promise", "reject", "thenable", "thenableReject"}
PendingKinds == {"promise", "reject", "thenable", "thenableReject"}
Platforms == {"express", "fastify"}
\* the two RequestContextGuard sources of the repository
GuardVersions == {"safetyNet", "unconditional"}


NotSeen ==
  [ran |-> FALSE, amb |-> NoStore, active |-> FALSE,
   requestId |-> Undefined, request |-> Undefined]
NoCall == [req |-> 0, op |-> "none", key |-> "", val |-> Undefined, path |-> <<>>,
           amb |-> NoStore, res |-> Undefined, all |-> EmptyMap]

\* the inbound request object of request p: a Fastify request has the raw and
\* server fields; the odd requests carry the x-request-id header
withHeader(p) == p % 2 = 1
mkRequest(p, plat) ==
  LET headers == IF withHeader(p)
                 THEN Obj([k \in {"x-request-id"} |-> Str("abc-" \o ToString(p))])
                 ELSE Obj(EmptyMap)
      fields == {"url", "headers"} \cup (IF plat = "fastify" THEN {"raw", "server"} ELSE {})
  IN Obj([k \in fields |->
            IF k = "headers" THEN headers ELSE Str(k \o "-" \o ToString(p))])
request == [p \in Reqs |-> mkRequest(p, platform)]

\* the example setup hook: ctx.set('requestId', req.headers['x-request-id'] || generated)
hookValue(req) ==
  LET h == Prop(Prop(req, "headers"), "x-request-id")
  IN IF h = Undefined THEN Str("generated") ELSE h

\* ------------------------------------------------------------ module wiring
\* forRoot registers the guard for 'guard' and for 'middleware', the
\* interceptor for 'interceptor'; forRootAsync always registers the guard and
\* never the interceptor; configure() applies the middleware for 'middleware'
hasMiddleware == opts.setupType = "middleware"
hasGuard == async \/ opts.setupType \in {"guard", "middleware"}
hasInterceptor == ~async /\ opts.setupType = "interceptor"

resolveAdapterType ==
  IF opts.adapter # "auto" THEN opts.adapter
  ELSE IF platform = "fastify" THEN "fastify" ELSE "express"

StageOrder == <<"mw", "guard", "icpt", "handler">>
registered(stage, ex) ==
  CASE stage = "mw" -> hasMiddleware /\ ~ex
    [] stage = "guard" -> hasGuard
    [] stage = "icpt" -> hasInterceptor
    [] OTHER -> TRUE
\* the first registered stage after position i of the pipeline
nextStage(i, ex) ==
  LET cands == {j \in (i + 1)..4 : registered(StageOrder[j], ex)}
  IN StageOrder[CHOOSE j \in cands : \A k \in cands : j <= k]

\* (variant) the store of the most recent run(), whichever chain made it
AmbientOfLatestRun(p) == Len(stores)
Ambient(p) == IF stack[p] = <<>> THEN NoStore ELSE stack[p][Len(stack[p])].s

\* no request has arrived, no store exists
InitRest ==
  /\ nextThrows = FALSE
  /\ stores = <<>>
  /\ excluded = [p \in Reqs |-> FALSE]
  /\ stack = [p \in Reqs |-> <<>>]
  /\ opened = [p \in Reqs |-> <<>>]
  /\ hooks = [p \in Reqs |-> <<>>]
  /\ signals = [p \in Reqs |-> <<>>]
  /\ seen = [p \in Reqs |-> NotSeen]
  /\ last = NoCall

\* the application is started with some module configuration; onModuleInit
\* has run on the service the module provides
moduleService == CHOOSE i \in Instances : TRUE
Init ==
  /\ opts \in [adapter : {DEFAULT_MODULE_OPTIONS.adapter}, setupType : SetupTypes,
               setRequest : BOOLEAN, hook : HookKinds]
  /\ async \in BOOLEAN
  /\ platform \in Platforms
  /\ guardSrc \in GuardVersions
  /\ instance = moduleService
  /\ pc = [p \in Reqs |-> "idle"]
  /\ opsLeft = 0
  /\ InitRest

\* a request arrives; the framework routes it to the first registered stage
Arrive(p) ==
  /\ pc[p] = "idle"
  /\ \E ex \in (IF hasMiddleware THEN BOOLEAN ELSE {FALSE}) :
       /\ excluded' = [excluded EXCEPT ![p] = ex]
       /\ pc' = [pc EXCEPT ![p] = nextStage(0, ex)]
  /\ UNCHANGED <<config, stores, stack, opened, hooks, signals, seen, opsLeft, last>>

\* ------------------------------------------------------ scope initializers
\* value ?? fallback
orDefault(value, fallback) == IF value = "undefined" THEN fallback ELSE value

\* ExpressContextMiddleware passes adapter ?? 'express', FastifyContextMiddleware
\* adapter ?? 'auto'; configure() picks the class with resolveAdapterType
mwAdapterArg ==
  IF resolveAdapterType = "fastify" THEN orDefault(opts.adapter, "auto")
  ELSE orDefault(opts.adapter, "express")

\* guard and interceptor: adapter === 'auto' || !adapter ? detectAdapterType(request) : adapter
detectedAdapterArg(req) ==
  IF opts.adapter = "auto" \/ opts.adapter = "undefined"
  THEN detectAdapterType(req) ELSE opts.adapter

\* if (options.setRequest !== false) contextService.setRequest(request, type)
\* (variant) an initializer that never stores the request
storeRequestNever(st, s, req, type) == st
storeRequest(st, s, req, type) ==
  IF opts.setRequest # FALSE THEN setRequest(st, s, req, type) ELSE st

\* options.setup(contextService, request), up to its return, throw or first
\* suspension, called with store s ambient
setupStores(st, s, req) ==
  IF opts.hook = "sync" THEN set(st, s, "requestId", hookValue(req)) ELSE st
\* the record of one invocation: the store that is ambient, the initializer,
\* what getRequest() and getAdapter() return inside the hook when it is
\* invoked (st is the heap at that moment), and how far the hook has got
setupRecord(st, s, by) ==
  [amb |-> s, by |-> by,
   request |-> getRequest(st, s), adapter |-> getCachedAdapter(st, s),
   st |-> CASE opts.hook = "sync" -> "returned"
            [] opts.hook = "throw" -> "threw"
            [] OTHER -> "pending"]
setupHooks(h, st, s, by) ==
  IF opts.hook = "none" THEN h ELSE Append(h, setupRecord(st, s, by))

\* result instanceof Promise
\* (variant) the middleware never waits for the hook's result
instanceofPromiseNever == FALSE
instanceofPromise == opts.hook \in {"promise", "reject"}

\* the invocation of the setup hook made by initializer `by` for request p
hookBy(p, by) ==
  hooks[p][CHOOSE i \in 1..Len(hooks[p]) : hooks[p][i].by = by]

Scope(s, by) == [s |-> s, by |-> by]

\* The chain in which the framework continues after an initializer.
\* Middleware: next() is called inside the run() callback (or in a then
\* callback registered inside it), so what next() triggers carries store s.
mwChain(s) == <<Scope(s, "mw")>>
\* Interceptor: next.handle().subscribe(...) is called inside the run() callback.
\* (variant) next.handle() subscribed after run() has returned
icptChainOutside(s) == <<>>
icptChain(s) == <<Scope(s, "icpt")>>
\* Guard: resolve(true) settles the promise that canActivate returned to the
\* framework; the framework awaits it in the chain it called canActivate in,
\* and run() made store s ambient for its own callback only.
guardChain(chain, s) == chain

\* ExpressContextMiddleware.use / FastifyContextMiddleware.use
Middleware(p) ==
  /\ pc[p] = "mw"
  /\ LET s == Len(stores) + 1
         st0 == Append(stores, newStore(EmptyMap))
         st1 == storeRequest(st0, s, request[p], mwAdapterArg)
     IN /\ stores' = setupStores(st1, s, request[p])
        /\ hooks' = [hooks EXCEPT ![p] = setupHooks(@, st1, s, "mw")]
        /\ opened' = [opened EXCEPT ![p] = Append(@, Scope(s, "mw"))]
        /\ IF opts.hook = "throw"
           THEN \* the exception leaves run() and use()
                /\ signals' = [signals EXCEPT ![p] = Append(@, "throw")]
                /\ pc' = [pc EXCEPT ![p] = "error"]
                /\ stack' = stack
           ELSE IF instanceofPromise
           THEN \* result.then(() => next()).catch((err) => next(err)); return
                /\ pc' = [pc EXCEPT ![p] = "mwWait"]
                /\ UNCHANGED <<signals, stack>>
           ELSE IF nextThrows
           THEN \* next() inside the run() callback throws: the exception
                \* leaves run() and use()
                /\ signals' = [signals EXCEPT ![p] = @ \o <<"next()", "throw">>]
                /\ pc' = [pc EXCEPT ![p] = "error"]
                /\ stack' = stack
           ELSE \* next() inside the run() callback
                /\ signals' = [signals EXCEPT ![p] = Append(@, "next()")]
                /\ pc' = [pc EXCEPT ![p] = nextStage(1, excluded[p])]
                /\ stack' = [stack EXCEPT ![p] = mwChain(s)]
  /\ UNCHANGED <<config, excluded, seen, opsLeft, last>>

\* (variant) a middleware that registers the then callback only
MiddlewareSettledNoCatch(p) ==
  /\ pc[p] = "mwWait"
  /\ hookBy(p, "mw").st = "fulfilled"
  /\ signals' = [signals EXCEPT ![p] = Append(@, "next()")]
  /\ pc' = [pc EXCEPT ![p] = nextStage(1, excluded[p])]
  /\ stack' = [stack EXCEPT ![p] = mwChain(hookBy(p, "mw").amb)]
  /\ UNCHANGED <<config, stores, excluded, opened, hooks, seen, opsLeft, last>>
\* the then / catch callbacks of the middleware; they were registered inside
\* the run() callback, so they run with its store ambient
MiddlewareSettled(p) ==
  /\ pc[p] = "mwWait"
  /\ LET h == hookBy(p, "mw")
     IN /\ h.st \in {"fulfilled", "rejected"}
        /\ IF h.st = "fulfilled" /\ nextThrows
           THEN \* next() throws in the then callback: the promise that then()
                \* returned rejects and the catch callback calls next(err)
                /\ signals' = [signals EXCEPT ![p] = @ \o <<"next()", "next(err)">>]
                /\ pc' = [pc EXCEPT ![p] = "error"]
                /\ stack' = stack
           ELSE IF h.st = "fulfilled"
           THEN /\ signals' = [signals EXCEPT ![p] = Append(@, "next()")]
                /\ pc' = [pc EXCEPT ![p] = nextStage(1, excluded[p])]
                /\ stack' = [stack EXCEPT ![p] = mwChain(h.amb)]
           ELSE /\ signals' = [signals EXCEPT ![p] = Append(@, "next(err)")]
                /\ pc' = [pc EXCEPT ![p] = "error"]
                /\ stack' = stack
  /\ UNCHANGED <<config, stores, excluded, opened, hooks, seen, opsLeft, last>>

\* the async callback shared by the guard and the interceptor, up to its
\* first suspension: resolve the adapter type, setRequest, call setup
initRequest(p, s) ==
  storeRequest(Append(stores, newStore(EmptyMap)), s, request[p],
               detectedAdapterArg(request[p]))
initStores(p, s) == setupStores(initRequest(p, s), s, request[p])

\* RequestContextGuard.canActivate.  The promise it returns is awaited by the
\* framework in the framework's own chain: the store created by run() is
\* ambient for the async callback only, so stack[p] is left as it is.
guardSkips(amb) == guardSrc = "safetyNet" /\ getStore(amb) # NoStore
Guard(p) ==
  /\ pc[p] = "guard"
  /\ IF guardSkips(Ambient(p))
     THEN \* existingStore: return true
          /\ signals' = [signals EXCEPT ![p] = Append(@, "return true")]
          /\ pc' = [pc EXCEPT ![p] = nextStage(2, excluded[p])]
          /\ UNCHANGED <<stores, opened, hooks, stack>>
     ELSE LET s == Len(stores) + 1
          IN /\ stores' = initStores(p, s)
             /\ hooks' = [hooks EXCEPT ![p] = setupHooks(@, initRequest(p, s), s, "guard")]
             /\ opened' = [opened EXCEPT ![p] = Append(@, Scope(s, "guard"))]
             /\ IF opts.hook = "throw"
                THEN /\ signals' = [signals EXCEPT ![p] = Append(@, "reject")]
                     /\ pc' = [pc EXCEPT ![p] = "error"]
                     /\ stack' = stack
                ELSE IF opts.hook = "none"
                THEN /\ signals' = [signals EXCEPT ![p] = Append(@, "resolve(true)")]
                     /\ pc' = [pc EXCEPT ![p] = nextStage(2, excluded[p])]
                     /\ stack' = [stack EXCEPT ![p] = guardChain(@, s)]
                ELSE \* await options.setup(...)
                     /\ pc' = [pc EXCEPT ![p] = "guardWait"]
                     /\ UNCHANGED <<signals, stack>>
  /\ UNCHANGED <<config, excluded, seen, opsLeft, last>>

\* (variant) a guard whose callback resolves true whatever the hook's outcome
GuardSettledSwallows(p) ==
  /\ pc[p] = "guardWait"
  /\ hookBy(p, "guard").st \in {"returned", "fulfilled", "rejected"}
  /\ signals' = [signals EXCEPT ![p] = Append(@, "resolve(true)")]
  /\ pc' = [pc EXCEPT ![p] = nextStage(2, excluded[p])]
  /\ UNCHANGED <<config, stores, excluded, stack, opened, hooks, seen, opsLeft, last>>
\* the guard's callback resumes after await: resolve(true), or reject(error)
GuardSettled(p) ==
  /\ pc[p] = "guardWait"
  /\ LET h == hookBy(p, "guard")
     IN /\ h.st \in {"returned", "fulfilled", "rejected"}
        /\ IF h.st = "rejected"
           THEN /\ signals' = [signals EXCEPT ![p] = Append(@, "reject")]
                /\ pc' = [pc EXCEPT ![p] = "error"]
                /\ stack' = stack
           ELSE /\ signals' = [signals EXCEPT ![p] = Append(@, "resolve(true)")]
                /\ pc' = [pc EXCEPT ![p] = nextStage(2, excluded[p])]
                /\ stack' = [stack EXCEPT ![p] = guardChain(@, h.amb)]
  /\ UNCHANGED <<config, stores, excluded, opened, hooks, seen, opsLeft, last>>

\* RequestContextInterceptor.intercept, from the subscription to the returned
\* Observable.  next.handle().subscribe(...) is called inside the callback of
\* run(), so the handler runs with the interceptor's store ambient.
Interceptor(p) ==
  /\ pc[p] = "icpt"
  /\ LET s == Len(stores) + 1
     IN /\ stores' = initStores(p, s)
        /\ hooks' = [hooks EXCEPT ![p] = setupHooks(@, initRequest(p, s), s, "icpt")]
        /\ opened' = [opened EXCEPT ![p] = Append(@, Scope(s, "icpt"))]
        /\ IF opts.hook = "throw"
           THEN /\ signals' = [signals EXCEPT ![p] = Append(@, "subscriber.error(error)")]
                /\ pc' = [pc EXCEPT ![p] = "error"]
                /\ stack' = stack
           ELSE IF opts.hook = "none"
           THEN /\ signals' = [signals EXCEPT ![p] = Append(@, "handle()")]
                /\ pc' = [pc EXCEPT ![p] = nextStage(3, excluded[p])]
                /\ stack' = [stack EXCEPT ![p] = icptChain(s)]
           ELSE /\ pc' = [pc EXCEPT ![p] = "icptWait"]
                /\ UNCHANGED <<signals, stack>>
  /\ UNCHANGED <<config, excluded, seen, opsLeft, last>>

InterceptorSettled(p) ==
  /\ pc[p] = "icptWait"
  /\ LET h == hookBy(p, "icpt")
     IN /\ h.st \in {"returned", "fulfilled", "rejected"}
        /\ IF h.st = "rejected"
           THEN /\ signals' = [signals EXCEPT ![p] = Append(@, "subscriber.error(error)")]
                /\ pc' = [pc EXCEPT ![p] = "error"]
                /\ stack' = stack
           ELSE /\ signals' = [signals EXCEPT ![p] = Append(@, "handle()")]
                /\ pc' = [pc EXCEPT ![p] = nextStage(3, excluded[p])]
                /\ stack' = [stack EXCEPT ![p] = icptChain(h.amb)]
  /\ UNCHANGED <<config, stores, excluded, opened, hooks, seen, opsLeft, last>>

\* a pending setup hook resumes in the chain it suspended in (store h.amb
\* ambient): it stores requestId and fulfils, or it rejects
HookSettle(p) ==
  /\ \E i \in 1..Len(hooks[p]) :
       /\ hooks[p][i].st = "pending"
       /\ IF opts.hook \in {"promise", "thenable"}
          THEN /\ stores' = set(stores, hooks[p][i].amb, "requestId", hookValue(request[p]))
               /\ hooks' = [hooks EXCEPT ![p][i].st = "fulfilled"]
          ELSE /\ stores' = stores
               /\ hooks' = [hooks EXCEPT ![p][i].st = "rejected"]
  /\ UNCHANGED <<config, pc, excluded, stack, opened, signals, seen, opsLeft, last>>

\* ------------------------------------------------------------------ handler
\* The route handler of request p runs in the framework's chain and reads
\* through the engine: isActive(), get('requestId'), getRequest()
Seen(amb) ==
  [ran |-> TRUE, amb |-> amb, active |-> isActive(amb),
   requestId |-> get(stores, amb, "requestId"),
   request |-> getRequest(stores, amb)]

\* how the handler's observable ends
Outcomes == {"completes", "errors"}
\* (variant) a subscription that turns the handler's error into a completion
icptForwardsCompletion(outcome) == <<"subscriber.complete">>
\* the callbacks the interceptor subscribed to next.handle() with
icptForwards(outcome) ==
  IF outcome = "errors" THEN <<"subscriber.error(err)">>
  ELSE <<"subscriber.next", "subscriber.complete">>

\* The handler returns a value or throws; behind the interceptor, what it
\* emits reaches the subscriber of the observable intercept() returned.
Handler(p) ==
  /\ pc[p] = "handler"
  /\ seen' = [seen EXCEPT ![p] = Seen(Ambient(p))]
  /\ \E outcome \in Outcomes :
       /\ pc' = [pc EXCEPT ![p] = IF outcome = "errors" THEN "handlerError" ELSE "done"]
       /\ signals' = [signals EXCEPT ![p] =
                        IF hasInterceptor THEN @ \o icptForwards(outcome) ELSE @]
  /\ stack' = [stack EXCEPT ![p] = <<>>]
  /\ UNCHANGED <<config, stores, excluded, opened, hooks, opsLeft, last>>

Next ==
  \E p \in Reqs :
    \/ Arrive(p)
    \/ Middleware(p)
    \/ MiddlewareSettled(p)
    \/ Guard(p)
    \/ GuardSettled(p)
    \/ Interceptor(p)
    \/ InterceptorSettled(p)
    \/ HookSettle(p)
    \/ Handler(p)

Spec == Init /\ [][Next]_vars

\* The steps of request p once it has arrived.  The event loop runs every
\* callback that is queued, the framework calls every stage it has reached,
\* and the awaitable of a setup hook eventually settles.
Step(p) ==
  \/ Middleware(p)
  \/ MiddlewareSettled(p)
  \/ Guard(p)
  \/ GuardSettled(p)
  \/ Interceptor(p)
  \/ InterceptorSettled(p)
  \/ HookSettle(p)
  \/ Handler(p)

\* the application is started; NumLiveReqs requests will arrive
InitLive ==
  /\ opts \in [adapter : {DEFAULT_MODULE_OPTIONS.adapter}, setupType : SetupTypes,
               setRequest : BOOLEAN, hook : HookKinds]
  /\ async \in BOOLEAN
  /\ platform \in Platforms
  /\ guardSrc \in GuardVersions
  /\ instance = moduleService
  /\ pc = [p \in Reqs |-> IF p <= NumLiveReqs THEN "idle" ELSE "unsent"]
  /\ opsLeft = 0
  /\ InitRest

SpecLive == InitLive /\ [][Next]_vars /\ \A p \in Reqs : WF_vars(Step(p))

\* ------------------------------------------------- direct use of the engine
\* Application tasks that are not inside a request pipeline (pc = "app") call
\* the engine directly; each call is one step of its task, so the calls of
\* different tasks interleave freely at their suspension points.
AppKeys == {"requestId", "x"}
AppValues(p) == {Str("v-" \o ToString(p)),
                 Obj([k \in {"a"} |-> Str("n-" \o ToString(p))])}
AppPaths == {<<>>, <<"x">>, <<"x", ".", "a">>, <<"x", ".", "a", ".", "b">>}

Call(op, key, path, amb, res, all) ==
  [req |-> 0, op |-> op, key |-> key, val |-> Undefined, path |-> path,
   amb |-> amb, res |-> res, all |-> all]

Called(p, call) ==
  /\ pc[p] = "app"
  /\ opsLeft > 0
  /\ opsLeft' = opsLeft - 1
  /\ last' = [call EXCEPT !.req = p]
  /\ UNCHANGED <<config, pc, excluded, opened, hooks, signals, seen>>

\* contextService.set(key, value)
AppSet(p) ==
  \E key \in AppKeys, value \in AppValues(p) :
    LET amb == Ambient(p)
    IN IF setThrows(amb)
       THEN /\ Called(p, [Call("set", key, <<>>, amb, Err("NoActiveContext"), EmptyMap)
                             EXCEPT !.val = value])
            /\ UNCHANGED <<stores, stack>>
       ELSE /\ Called(p, [Call("set", key, <<>>, amb, Undefined, EmptyMap)
                             EXCEPT !.val = value])
            /\ stores' = set(stores, amb, key, value)
            /\ stack' = stack

\* contextService.setRequest(request): three set() calls, the first of which
\* throws when no store is ambient
AppSetRequest(p) ==
  LET amb == Ambient(p)
  IN IF setThrows(amb)
     THEN /\ Called(p, Call("setRequest", "", <<>>, amb, Err("NoActiveContext"), EmptyMap))
          /\ UNCHANGED <<stores, stack>>
     ELSE /\ Called(p, Call("setRequest", "", <<>>, amb, Undefined, EmptyMap))
          /\ stores' = setRequest(stores, amb, request[p], DEFAULT_MODULE_OPTIONS.adapter)
          /\ stack' = stack

\* contextService.delete(key)
AppDelete(p) ==
  \E key \in AppKeys :
    LET amb == Ambient(p)
    IN /\ Called(p, Call("delete", key, <<>>, amb, Bool(has(stores, amb, key)), EmptyMap))
       /\ stores' = delete(stores, amb, key)
       /\ stack' = stack

\* contextService.clear()
AppClear(p) ==
  LET amb == Ambient(p)
  IN /\ Called(p, Call("clear", "", <<>>, amb, Undefined, EmptyMap))
     /\ stores' = clear(stores, amb)
     /\ stack' = stack

\* the calls that read: get, has, getByPath, getAll, isActive
AppRead(p) ==
  LET amb == Ambient(p)
  IN /\ \/ \E key \in AppKeys :
             \/ Called(p, Call("get", key, <<>>, amb, get(stores, amb, key), EmptyMap))
             \/ Called(p, Call("has", key, <<>>, amb, Bool(has(stores, amb, key)), EmptyMap))
        \/ \E path \in AppPaths :
             Called(p, Call("getByPath", "", path, amb, getByPath(stores, amb, path), EmptyMap))
        \/ Called(p, Call("getAll", "", <<>>, amb, Undefined, getAll(stores, amb)))
        \/ Called(p, Call("isActive", "", <<>>, amb, Bool(isActive(amb)), EmptyMap))
     /\ UNCHANGED <<stores, stack>>

\* (variant) a nested run() that reuses the store that is already ambient
AppRunShares(p) ==
  \E by \in {"run", "runAsync"} :
    /\ Called(p, Call(by, "", <<>>, Ambient(p), Undefined, EmptyMap))
    /\ IF isActive(Ambient(p))
       THEN /\ stores' = stores
            /\ stack' = [stack EXCEPT ![p] = Append(@, Scope(Ambient(p), by))]
       ELSE /\ stores' = Append(stores, newStore(EmptyMap))
            /\ stack' = [stack EXCEPT ![p] = Append(@, Scope(Len(stores) + 1, by))]
\* contextService.run(callback) / runAsync(callback): a new store is ambient
\* for the callback, whose engine calls are the task's next calls
AppRun(p) ==
  \E by \in {"run", "runAsync"} :
    LET s == Len(stores) + 1
    IN /\ Called(p, Call(by, "", <<>>, Ambient(p), Undefined, EmptyMap))
       /\ stores' = Append(stores, newStore(EmptyMap))
       /\ stack' = [stack EXCEPT ![p] = Append(@, Scope(s, by))]

\* (variant) a run() whose store stays ambient for the caller after it returned
AppRunReturnsLeaks(p) ==
  /\ pc[p] = "app"
  /\ stack[p] # <<>>
  /\ last' = [Call("returned", "", <<>>, Ambient(p), Undefined, EmptyMap) EXCEPT !.req = p]
  /\ UNCHANGED <<config, stores, pc, excluded, stack, opened, hooks, signals, opsLeft, seen>>
\* the callback of run / runAsync has returned and settled: the caller's
\* chain continues with the store that was ambient before the call
AppRunReturns(p) ==
  /\ pc[p] = "app"
  /\ stack[p] # <<>>
  /\ stack' = [stack EXCEPT ![p] = SubSeq(@, 1, Len(@) - 1)]
  /\ last' = [Call("returned", "", <<>>, Ambient(p), Undefined, EmptyMap) EXCEPT !.req = p]
  /\ UNCHANGED <<config, stores, pc, excluded, opened, hooks, signals, opsLeft, seen>>

InitEngine ==
  /\ opts = [DEFAULT_MODULE_OPTIONS EXCEPT !.setRequest = TRUE] @@ [hook |-> "none"]
  /\ async = FALSE
  /\ platform = "express"
  /\ guardSrc = "safetyNet"
  /\ instance = NoInstance
  /\ pc = [p \in Reqs |-> "app"]
  /\ opsLeft = MaxOps
  /\ InitRest

NextEngine ==
  \E p \in Reqs :
    \/ AppSet(p)
    \/ AppDelete(p)
    \/ AppClear(p)
    \/ AppRead(p)
    \/ AppRun(p)
    \/ AppRunReturns(p)

SpecEngine == InitEngine /\ [][NextEngine]_vars

\* --------------------------------------------------------- bulk enumeration
\* Tasks that fill their scope with user entries and with the request data,
\* remove entries, and enumerate the scope with getAll().  A user key is any
\* string: "__custom" is a user key that begins like the reserved ones.
BulkKeys == {"x", "__custom"}
BulkValue(p) == Str("v-" \o ToString(p))

BulkSet(p) ==
  \E key \in BulkKeys :
    LET amb == Ambient(p)
    IN /\ ~setThrows(amb)
       /\ Called(p, [Call("set", key, <<>>, amb, Undefined, EmptyMap)
                       EXCEPT !.val = BulkValue(p)])
       /\ stores' = set(stores, amb, key, BulkValue(p))
       /\ stack' = stack

\* delete of a user entry, or of an entry setRequest made
BulkDelete(p) ==
  \E key \in BulkKeys \cup {INTERNAL_KEYS.ADAPTER} :
    LET amb == Ambient(p)
    IN /\ Called(p, Call("delete", key, <<>>, amb, Bool(has(stores, amb, key)), EmptyMap))
       /\ stores' = delete(stores, amb, key)
       /\ stack' = stack

BulkGetAll(p) ==
  LET amb == Ambient(p)
  IN /\ Called(p, Call("getAll", "", <<>>, amb, Undefined, getAll(stores, amb)))
     /\ UNCHANGED <<stores, stack>>

NextBulk ==
  \E p \in Reqs :
    \/ AppRun(p)
    \/ BulkSet(p)
    \/ AppSetRequest(p)
    \/ BulkDelete(p)
    \/ AppClear(p)
    \/ BulkGetAll(p)

SpecBulk == InitEngine /\ [][NextBulk]_vars

\* ----------------------------------------------------------------- dot paths
\* getByPath applied to every path of at most MaxPathLen characters over
\* a, b, c and the dot, in a scope whose entries are nested up to depth 3.
Num(n) == [t |-> "number", s |-> ToString(n)]
Rec(name, value) == Obj([k \in {name} |-> value])
PathChars == {"a", "b", "c", "."}
Paths == UNION {[1..n -> PathChars] : n \in 0..MaxPathLen}
\* what set('a', ...) stored, or "missing" when it was never called
NestedValues ==
  {Null, Num(5), Str("s"), Rec("b", Null), Rec("b", Num(5)),
   Rec("b", Rec("c", Num(5))), Rec("b", Rec("c", Null)), Rec("", Rec("b", Num(5)))}
\* the stores: key a set or not, the empty key set or not
PathStores ==
  {EmptyMap, [k \in {""} |-> Num(5)]}
    \cup {[k \in {"a"} |-> v] : v \in NestedValues}
    \cup {[k \in {"a", ""} |-> IF k = "a" THEN v ELSE Rec("b", Num(5))] : v \in NestedValues}

\* task 1 is inside run() with the entries set; the other tasks are outside;
\* one of the tasks is about to call getByPath with some path
InitPath ==
  /\ opts = [DEFAULT_MODULE_OPTIONS EXCEPT !.setRequest = TRUE] @@ [hook |-> "none"]
  /\ async = FALSE
  /\ platform = "express"
  /\ guardSrc = "safetyNet"
  /\ nextThrows = FALSE
  /\ instance = NoInstance
  /\ pc = [p \in Reqs |-> "app"]
  /\ opsLeft = MaxOps
  /\ \E m \in PathStores : stores = <<m>>
  /\ excluded = [p \in Reqs |-> FALSE]
  /\ stack = [p \in Reqs |-> IF p = 1 THEN <<Scope(1, "run")>> ELSE <<>>]
  /\ opened = [p \in Reqs |-> <<>>]
  /\ hooks = [p \in Reqs |-> <<>>]
  /\ signals = [p \in Reqs |-> <<>>]
  /\ seen = [p \in Reqs |-> NotSeen]
  /\ \E p \in Reqs, path \in Paths :
       last = [NoCall EXCEPT !.req = p, !.op = "calling", !.path = path]

\* contextService.getByPath(path)
PathRead(p) ==
  /\ last.op = "calling" /\ last.req = p
  /\ LET amb == Ambient(p)
     IN Called(p, Call("getByPath", "", last.path, amb,
                       getByPath(stores, amb, last.path), EmptyMap))
  /\ UNCHANGED <<stores, stack>>

NextPath == \E p \in Reqs : PathRead(p)

SpecPath == InitPath /\ [][NextPath]_vars

\* --------------------------------------------------- process-wide singleton
\* The framework calls onModuleInit on each RequestContextService it created;
\* tasks look the singleton up with the static methods, before or after, and
\* go on using the engine.
OnModuleInit(i) ==
  /\ opsLeft > 0
  /\ opsLeft' = opsLeft - 1
  /\ instance' = i
  /\ last' = [Call("onModuleInit", "", <<>>, NoStore, Undefined, EmptyMap) EXCEPT !.val = Ref(i)]
  /\ UNCHANGED <<opts, async, platform, guardSrc, nextThrows, stores, pc, excluded, stack,
                 opened, hooks, signals, seen>>

StaticCall(p, call) ==
  /\ pc[p] = "app"
  /\ opsLeft > 0
  /\ opsLeft' = opsLeft - 1
  /\ last' = [call EXCEPT !.req = p]
  /\ UNCHANGED <<config, stores, pc, excluded, stack, opened, hooks, signals, seen>>

GetInstance(p) ==
  StaticCall(p, Call("getInstance", "", <<>>, Ambient(p), getInstance(instance), EmptyMap))

HasInstance(p) ==
  StaticCall(p, Call("hasInstance", "", <<>>, Ambient(p), Bool(hasInstance(instance)), EmptyMap))

NextSingleton ==
  \/ \E i \in Instances : OnModuleInit(i)
  \/ \E p \in Reqs :
       \/ GetInstance(p)
       \/ HasInstance(p)
       \/ AppRun(p)
       \/ BulkSet(p)
       \/ AppClear(p)
       \/ AppRunReturns(p)

SpecSingleton == InitEngine /\ [][NextSingleton]_vars

\* ------------------------------------------------------- next() that throws
\* The applications of Spec, and those in which the stage that next() starts
\* throws synchronously, so that the call next() itself throws.
InitNextThrows ==
  /\ opts \in [adapter : {DEFAULT_MODULE_OPTIONS.adapter}, setupType : SetupTypes,
               setRequest : BOOLEAN, hook : HookKinds]
  /\ async \in BOOLEAN
  /\ platform \in Platforms
  /\ guardSrc \in GuardVersions
  /\ nextThrows \in BOOLEAN
  /\ instance = moduleService
  /\ pc = [p \in Reqs |-> "idle"]
  /\ opsLeft = 0
  /\ stores = <<>>
  /\ excluded = [p \in Reqs |-> FALSE]
  /\ stack = [p \in Reqs |-> <<>>]
  /\ opened = [p \in Reqs |-> <<>>]
  /\ hooks = [p \in Reqs |-> <<>>]
  /\ signals = [p \in Reqs |-> <<>>]
  /\ seen = [p \in Reqs |-> NotSeen]
  /\ last = NoCall

SpecNextThrows == InitNextThrows /\ [][Next]_vars

\* ------------------------------------------------ createFastifyContextHook
\* A Fastify application that registers createFastifyContextHook(...) as a
\* preHandler hook in place of the context middleware: the hook runs first,
\* then the guard or the interceptor that forRoot registered, then the handler.
InitFastifyHook ==
  /\ opts \in [adapter : {DEFAULT_MODULE_OPTIONS.adapter}, setupType : {"guard", "interceptor"},
               setRequest : BOOLEAN, hook : HookKinds]
  /\ async = FALSE
  /\ platform = "fastify"
  /\ guardSrc \in GuardVersions
  /\ instance = moduleService
  /\ pc = [p \in Reqs |-> "preHandler"]
  /\ opsLeft = 0
  /\ InitRest

\* the function createFastifyContextHook returns.  The promise it returns is
\* awaited by Fastify in Fastify's own chain, so stack[p] is left as it is.
FastifyContextHook(p) ==
  /\ pc[p] = "preHandler"
  /\ LET s == Len(stores) + 1
         st0 == Append(stores, newStore(EmptyMap))
         st1 == storeRequest(st0, s, request[p], orDefault(opts.adapter, "auto"))
     IN /\ stores' = setupStores(st1, s, request[p])
        /\ hooks' = [hooks EXCEPT ![p] = setupHooks(@, st1, s, "hook")]
        /\ opened' = [opened EXCEPT ![p] = Append(@, Scope(s, "hook"))]
        /\ IF opts.hook = "throw"
           THEN /\ signals' = [signals EXCEPT ![p] = Append(@, "reject")]
                /\ pc' = [pc EXCEPT ![p] = "error"]
           ELSE IF opts.hook = "none"
           THEN /\ signals' = [signals EXCEPT ![p] = Append(@, "resolve()")]
                /\ pc' = [pc EXCEPT ![p] = nextStage(1, excluded[p])]
           ELSE \* await options.setup(...)
                /\ pc' = [pc EXCEPT ![p] = "hookWait"]
                /\ signals' = signals
  /\ UNCHANGED <<config, excluded, stack, seen, opsLeft, last>>

\* the callback resumes after await: resolve(), or reject(error)
FastifyContextHookSettled(p) ==
  /\ pc[p] = "hookWait"
  /\ LET h == hookBy(p, "hook")
     IN /\ h.st \in {"returned", "fulfilled", "rejected"}
        /\ IF h.st = "rejected"
           THEN /\ signals' = [signals EXCEPT ![p] = Append(@, "reject")]
                /\ pc' = [pc EXCEPT ![p] = "error"]
           ELSE /\ signals' = [signals EXCEPT ![p] = Append(@, "resolve()")]
                /\ pc' = [pc EXCEPT ![p] = nextStage(1, excluded[p])]
  /\ UNCHANGED <<config, stores, excluded, stack, opened, hooks, seen, opsLeft, last>>

\* every initializer style: the applications that forRoot configures, on
\* either platform, and the Fastify applications with the preHandler hook
InitInitializers == (Init /\ ~async) \/ InitFastifyHook

NextInitializers ==
  \/ Next
  \/ \E p \in Reqs : FastifyContextHook(p) \/ FastifyContextHookSettled(p)

SpecInitializers == InitInitializers /\ [][NextInitializers]_vars

\* ------------------------------------------------------------ seeded scopes
\* run(callback, initialStore) and runAsync(callback, initialStore), called
\* outside or inside another scope.  The caller's initialStore object lives
\* in the heap next to the Maps, so that a store which is that object, and not
\* a copy of it, would show.
InitialValues(p) ==
  {[k \in {"x"} |-> Str("i-" \o ToString(p))],
   [k \in {"x", INTERNAL_KEYS.REQUEST} |->
      IF k = "x" THEN Obj([a \in {"a"} |-> Str("i-" \o ToString(p))]) ELSE request[p]]}

\* the entries of the store that is ambient, none outside a scope
ambientMap(st, amb) == IF getStore(amb) = NoStore THEN EmptyMap ELSE st[getStore(amb)]

\* (variant) a new scope that starts from the entries of the ambient one
seedInherits(outer, initialStore) ==
  [k \in DOMAIN outer \cup DOMAIN initialStore |->
     IF k \in DOMAIN initialStore THEN initialStore[k] ELSE outer[k]]
\* the Map that run() hands to asyncLocalStorage.run: a new Map with the
\* entries of initialStore, whatever store `outer` is ambient at the call
seed(outer, initialStore) == newStore(initialStore)

\* (variant) the initialStore object itself is used as the store
runStoreIsInitial(heap, o) == o
\* the store of the new scope: the Map allocated after the heap's objects
runStore(heap, o) == Len(heap) + 1

\* the record of a seeded scope: its store, and the caller's object (heap
\* index init) with the entries it had at the call
Seeded(s, by, o, initialStore) == [s |-> s, by |-> by, init |-> o, initial |-> initialStore]

RunSeeded(p) ==
  \E by \in {"run", "runAsync"}, initialStore \in InitialValues(p) :
    LET o == Len(stores) + 1
        heap == Append(stores, initialStore)
        s == runStore(heap, o)
    IN /\ pc[p] = "app"
       /\ opsLeft > 0
       /\ opsLeft' = opsLeft - 1
       /\ last' = [Call(by, "", <<>>, Ambient(p), Undefined, initialStore) EXCEPT !.req = p]
       /\ stores' = Append(heap, seed(ambientMap(stores, Ambient(p)), heap[o]))
       /\ stack' = [stack EXCEPT ![p] = Append(@, Scope(s, by))]
       /\ opened' = [opened EXCEPT ![p] = Append(@, Seeded(s, by, o, initialStore))]
       /\ UNCHANGED <<config, pc, excluded, hooks, signals, seen>>

\* no scope is open; the tasks have one call fewer than in the other runs
InitSeeded ==
  /\ opts = [DEFAULT_MODULE_OPTIONS EXCEPT !.setRequest = TRUE] @@ [hook |-> "none"]
  /\ async = FALSE
  /\ platform = "express"
  /\ guardSrc = "safetyNet"
  /\ instance = NoInstance
  /\ pc = [p \in Reqs |-> "app"]
  /\ opsLeft = MaxOps - 1
  /\ InitRest

NextSeeded ==
  \E p \in Reqs :
    \/ RunSeeded(p)
    \/ BulkSet(p)
    \/ AppSetRequest(p)
    \/ BulkDelete(p)
    \/ AppClear(p)
    \/ AppRunReturns(p)

SpecSeeded == InitSeeded /\ [][NextSeeded]_vars

\* ---------------------------------------------------------------- accessors
\* The parameter decorators, called for a handler of request p whose
\* ExecutionContext yields `native` (the inbound request, or nothing), before
\* or after onModuleInit, inside or outside a scope.
\* !v
falsy(v) == v \in {Undefined, Null, Str(""), False}

\* key.toLowerCase(), on the header names that are used
toLowerCase(name) == CASE name = "X-Request-Id" -> "x-request-id" [] OTHER -> name

\* ExpressAdapter / FastifyAdapter: request.headers, request.headers[key.toLowerCase()]
adapterGetHeaders(req) == Prop(req, "headers")
adapterGetHeader(req, key) ==
  IF Prop(req, "headers") \in {Undefined, Null} THEN Err("TypeError")
  ELSE Prop(Prop(req, "headers"), toLowerCase(key))

getHeader(st, amb, key) ==
  IF falsy(getCachedAdapter(st, amb)) \/ falsy(getRequest(st, amb)) THEN Undefined
  ELSE adapterGetHeader(getRequest(st, amb), key)

getHeaders(st, amb) ==
  IF falsy(getCachedAdapter(st, amb)) \/ falsy(getRequest(st, amb)) THEN Obj(EmptyMap)
  ELSE adapterGetHeaders(getRequest(st, amb))

\* @Req(): the stored request when it is truthy, else the native one
Req(inst, st, amb, native) ==
  IF hasInstance(inst) /\ ~falsy(getRequest(st, amb)) THEN getRequest(st, amb)
  ELSE native

\* @Headers(headerName): whatever the service returns once the singleton
\* exists; the native request only when it does not, or when the service threw
Headers(inst, st, amb, headerName, native) ==
  LET viaService == IF ~falsy(headerName) THEN getHeader(st, amb, headerName.s)
                    ELSE getHeaders(st, amb)
      fallback ==
        IF native \in {Undefined, Null} THEN Err("TypeError")
        ELSE IF ~falsy(headerName)
             THEN (IF Prop(native, "headers") \in {Undefined, Null} THEN Undefined
                   ELSE Prop(Prop(native, "headers"), toLowerCase(headerName.s)))
             ELSE (IF falsy(Prop(native, "headers")) THEN Obj(EmptyMap)
                   ELSE Prop(native, "headers"))
  IN IF hasInstance(inst) /\ viaService.t # "error" THEN viaService ELSE fallback

Header(inst, st, amb, key, native) == Headers(inst, st, amb, key, native)

RECURSIVE resolveFrom(_, _, _)
resolveFrom(current, parts, i) ==
  IF i > Len(parts) THEN current
  ELSE IF current \in {Undefined, Null} THEN Undefined
  ELSE resolveFrom(Prop(current, parts[i]), parts, i + 1)

resolvePath(obj, path) ==
  IF falsy(obj) \/ path = <<>> THEN Undefined ELSE resolveFrom(obj, split(path), 1)

RequestKey(inst, st, amb, key, native) ==
  LET stored == IF hasInstance(inst) THEN getRequest(st, amb) ELSE Undefined
      req == IF falsy(stored) THEN native ELSE stored
  IN IF falsy(req) THEN Undefined ELSE resolvePath(req, key)

ContextValue(inst, st, amb, path) ==
  IF hasInstance(inst) THEN getByPath(st, amb, path) ELSE Undefined

\* ctx.switchToHttp().getRequest() in a handler of request p
NativeRequests(p) == {request[p], Undefined}
\* "" stands for the decorator used without an argument
HeaderNames == {"", "X-Request-Id", "x-request-id"}
headerArg(name) == IF name = "" THEN Undefined ELSE Str(name)
RequestKeyPaths == {<<>>, <<"url">>, <<"headers", ".", "x-request-id">>, <<"user", ".", "id">>}

Decorated(p, call, native) ==
  /\ Called(p, [call EXCEPT !.val = native])
  /\ UNCHANGED <<stores, stack>>

ReqDecorator(p) ==
  \E native \in NativeRequests(p) :
    Decorated(p, Call("Req", "", <<>>, Ambient(p),
                      Req(instance, stores, Ambient(p), native), EmptyMap), native)

HeadersDecorator(p) ==
  \E native \in NativeRequests(p), name \in HeaderNames :
    Decorated(p, Call("Headers", name, <<>>, Ambient(p),
                      Headers(instance, stores, Ambient(p), headerArg(name), native),
                      EmptyMap), native)

HeaderDecorator(p) ==
  \E native \in NativeRequests(p), name \in HeaderNames \ {""} :
    Decorated(p, Call("Header", name, <<>>, Ambient(p),
                      Header(instance, stores, Ambient(p), headerArg(name), native),
                      EmptyMap), native)

RequestKeyDecorator(p) ==
  \E native \in NativeRequests(p), key \in RequestKeyPaths :
    Decorated(p, Call("RequestKey", "", key, Ambient(p),
                      RequestKey(instance, stores, Ambient(p), key, native), EmptyMap),
              native)

ContextValueDecorator(p) ==
  \E native \in NativeRequests(p), path \in AppPaths :
    Decorated(p, Call("ContextValue", "", path, Ambient(p),
                      ContextValue(instance, stores, Ambient(p), path), EmptyMap), native)

NextAccessors ==
  \/ \E i \in Instances : OnModuleInit(i)
  \/ \E p \in Reqs :
       \/ AppRun(p)
       \/ AppSetRequest(p)
       \/ AppSet(p)
       \/ ReqDecorator(p)
       \/ HeadersDecorator(p)
       \/ HeaderDecorator(p)
       \/ RequestKeyDecorator(p)
       \/ ContextValueDecorator(p)

SpecAccessors == InitEngine /\ [][NextAccessors]_vars

\* ---------------------------------------------------------- adapter factory
\* detectAdapterType and getAdapter applied to what a caller may pass: nothing,
\* null, a string, or an object in which each of raw, server and url is
\* missing, undefined, null or a value.
FieldValues == {Undefined, Null, Str("v")}
RequestInputs ==
  {Undefined, Null, Str("req")}
    \cup {Obj(f) : f \in UNION {[D -> FieldValues] : D \in SUBSET {"raw", "server", "url"}}}

\* one of the tasks is about to pass some request to the factory
InitFactory ==
  /\ opts = [DEFAULT_MODULE_OPTIONS EXCEPT !.setRequest = TRUE] @@ [hook |-> "none"]
  /\ async = FALSE
  /\ platform = "express"
  /\ guardSrc = "safetyNet"
  /\ nextThrows = FALSE
  /\ instance = NoInstance
  /\ pc = [p \in Reqs |-> "app"]
  /\ opsLeft = MaxOps
  /\ stores = <<>>
  /\ excluded = [p \in Reqs |-> FALSE]
  /\ stack = [p \in Reqs |-> <<>>]
  /\ opened = [p \in Reqs |-> <<>>]
  /\ hooks = [p \in Reqs |-> <<>>]
  /\ signals = [p \in Reqs |-> <<>>]
  /\ seen = [p \in Reqs |-> NotSeen]
  /\ \E p \in Reqs, req \in RequestInputs :
       last = [NoCall EXCEPT !.req = p, !.op = "calling", !.val = req]

FactoryCall(p, call) ==
  /\ last.op = "calling" /\ last.req = p
  /\ Called(p, [call EXCEPT !.val = last.val])
  /\ UNCHANGED <<stores, stack>>

DetectAdapterType(p) ==
  FactoryCall(p, Call("detectAdapterType", "", <<>>, NoStore,
                      Str(detectAdapterType(last.val)), EmptyMap))

GetAdapter(p) ==
  \E type \in AdapterTypes :
    FactoryCall(p, Call("getAdapter", type, <<>>, NoStore,
                        getAdapter(type, last.val), EmptyMap))

NextFactory == \E p \in Reqs : DetectAdapterType(p) \/ GetAdapter(p)

SpecFactory == InitFactory /\ [][NextFactory]_vars

\* ------------------------------------------------------- option resolution
\* forRoot / forRootAsync applied to every options record a caller may pass:
\* each field is left out or given one of its values.
\* (variant) { ...options, ...DEFAULT_MODULE_OPTIONS }
applyDefaultsOverSupplied(options) ==
  [k \in DOMAIN DEFAULT_MODULE_OPTIONS \cup DOMAIN options |->
     IF k \in DOMAIN DEFAULT_MODULE_OPTIONS THEN DEFAULT_MODULE_OPTIONS[k] ELSE options[k]]
\* { ...DEFAULT_MODULE_OPTIONS, ...options }
applyDefaults(options) ==
  [k \in DOMAIN DEFAULT_MODULE_OPTIONS \cup DOMAIN options |->
     IF k \in DOMAIN options THEN options[k] ELSE DEFAULT_MODULE_OPTIONS[k]]

\* normalizedOptions.isGlobal !== false
isGlobal(options) == ~("isGlobal" \in DOMAIN options /\ options.isGlobal = FALSE)

Optional(field, values) == {EmptyMap} \cup {[k \in {field} |-> v] : v \in values}
SuppliedOptions ==
  {g @@ a @@ t @@ r :
     g \in Optional("isGlobal", BOOLEAN),
     a \in Optional("adapter", AdapterTypes),
     t \in Optional("setupType", SetupTypes),
     r \in Optional("setRequest", BOOLEAN)}

\* the field of the record without one key
without(options, field) == [k \in DOMAIN options \ {field} |-> options[k]]

\* the application is about to configure the module with some record
InitOptions ==
  /\ opts = EmptyMap
  /\ async = FALSE
  /\ platform \in Platforms
  /\ guardSrc = "safetyNet"
  /\ nextThrows = FALSE
  /\ instance = NoInstance
  /\ pc = [p \in Reqs |-> "idle"]
  /\ opsLeft = 0
  /\ stores = <<>>
  /\ excluded = [p \in Reqs |-> FALSE]
  /\ stack = [p \in Reqs |-> <<>>]
  /\ opened = [p \in Reqs |-> <<>>]
  /\ hooks = [p \in Reqs |-> <<>>]
  /\ signals = [p \in Reqs |-> <<>>]
  /\ seen = [p \in Reqs |-> NotSeen]
  /\ \E options \in SuppliedOptions :
       last = [NoCall EXCEPT !.op = "calling", !.all = options]

\* RequestContextModule.forRoot(options); res is the `global` flag of the
\* DynamicModule it returns
ForRoot ==
  /\ last.op = "calling"
  /\ opts' = applyDefaults(last.all)
  /\ async' = FALSE
  /\ last' = [last EXCEPT !.op = "forRoot", !.res = Bool(isGlobal(applyDefaults(last.all)))]
  /\ UNCHANGED <<platform, guardSrc, nextThrows, instance, stores, pc, excluded, stack, opened,
                 hooks, signals, seen, opsLeft>>

\* RequestContextModule.forRootAsync({ isGlobal, useFactory }): the factory
\* returns the other fields; `global` comes from the async options
ForRootAsync ==
  /\ last.op = "calling"
  /\ opts' = applyDefaults(without(last.all, "isGlobal"))
  /\ async' = TRUE
  /\ last' = [last EXCEPT !.op = "forRootAsync", !.res = Bool(isGlobal(last.all))]
  /\ UNCHANGED <<platform, guardSrc, nextThrows, instance, stores, pc, excluded, stack, opened,
                 hooks, signals, seen, opsLeft>>

NextOptions == ForRoot \/ ForRootAsync

SpecOptions == InitOptions /\ [][NextOptions]_vars

\* ------------------------------------------------------------- one scope
\* Task 1 is inside run(), the other tasks are outside; they set, delete,
\* clear and read, and setRequest adds the reserved entries.
InitStore ==
  /\ opts = [DEFAULT_MODULE_OPTIONS EXCEPT !.setRequest = TRUE] @@ [hook |-> "none"]
  /\ async = FALSE
  /\ platform = "express"
  /\ guardSrc = "safetyNet"
  /\ nextThrows = FALSE
  /\ instance = NoInstance
  /\ pc = [p \in Reqs |-> "app"]
  /\ opsLeft = MaxOps
  /\ stores = <<newStore(EmptyMap)>>
  /\ excluded = [p \in Reqs |-> FALSE]
  /\ stack = [p \in Reqs |-> IF p = 1 THEN <<Scope(1, "run")>> ELSE <<>>]
  /\ opened = [p \in Reqs |-> <<>>]
  /\ hooks = [p \in Reqs |-> <<>>]
  /\ signals = [p \in Reqs |-> <<>>]
  /\ seen = [p \in Reqs |-> NotSeen]
  /\ last = NoCall

\* contextService.get(key), contextService.has(key)
StoreRead(p) ==
  /\ \E key \in AppKeys :
       LET amb == Ambient(p)
       IN \/ Called(p, Call("get", key, <<>>, amb, get(stores, amb, key), EmptyMap))
          \/ Called(p, Call("has", key, <<>>, amb, Bool(has(stores, amb, key)), EmptyMap))
  /\ UNCHANGED <<stores, stack>>

NextStore ==
  \E p \in Reqs :
    \/ AppSet(p)
    \/ AppSetRequest(p)
    \/ AppDelete(p)
    \/ AppClear(p)
    \/ StoreRead(p)

SpecStore == InitStore /\ [][NextStore]_vars

\* --------------------------------------------------------- several services
\* Each RequestContextService object has an AsyncLocalStorage of its own, and
\* the static accessors read the one of the singleton.  Application code and
\* the initializers use the service injected into them; the decorators use
\* RequestContextService.getInstance().
ServiceScope(s, by, i) == [s |-> s, by |-> by, als |-> i]

\* this.asyncLocalStorage.getStore() of service i in the chain of task p: the
\* store of the innermost run() made through that service
alsStore(i, p) ==
  LET own == {n \in 1..Len(stack[p]) : stack[p][n].als = i}
  IN IF own = {} THEN NoStore
     ELSE stack[p][CHOOSE n \in own : \A m \in own : m <= n].s

\* service.run(callback) through the injected service i
ServiceRun(p) ==
  \E i \in Instances :
    LET s == Len(stores) + 1
    IN /\ Called(p, [Call("run", "", <<>>, alsStore(i, p), Undefined, EmptyMap)
                       EXCEPT !.val = Ref(i)])
       /\ stores' = Append(stores, newStore(EmptyMap))
       /\ stack' = [stack EXCEPT ![p] = Append(@, ServiceScope(s, "run", i))]

\* service.setRequest(request) and service.set("x", value) through the
\* injected service i
ServiceFill(p) ==
  \E i \in Instances :
    LET amb == alsStore(i, p)
    IN IF setThrows(amb)
       THEN /\ Called(p, [Call("setRequest", "", <<>>, amb, Err("NoActiveContext"), EmptyMap)
                            EXCEPT !.val = Ref(i)])
            /\ UNCHANGED <<stores, stack>>
       ELSE /\ Called(p, [Call("setRequest", "", <<>>, amb, Undefined, EmptyMap)
                            EXCEPT !.val = Ref(i)])
            /\ stores' = set(setRequest(stores, amb, request[p], DEFAULT_MODULE_OPTIONS.adapter),
                             amb, "x", Obj([k \in {"a"} |-> Str("n-" \o ToString(p))]))
            /\ stack' = stack

\* the decorators, resolving through the singleton
SingletonAccessor(p) ==
  LET amb == IF hasInstance(instance) THEN alsStore(instance, p) ELSE NoStore
      native == request[p]
  IN \/ \E path \in AppPaths :
          Decorated(p, Call("ContextValue", "", path, amb,
                            ContextValue(instance, stores, amb, path), EmptyMap), native)
     \/ Decorated(p, Call("Req", "", <<>>, amb,
                          Req(instance, stores, amb, native), EmptyMap), native)
     \/ \E name \in HeaderNames :
          Decorated(p, Call("Headers", name, <<>>, amb,
                            Headers(instance, stores, amb, headerArg(name), native),
                            EmptyMap), native)
     \/ \E key \in RequestKeyPaths :
          Decorated(p, Call("RequestKey", "", key, amb,
                            RequestKey(instance, stores, amb, key, native), EmptyMap),
                    native)

\* the framework has created the services and called onModuleInit on each of
\* them, in some order: the singleton is the one initialized last
InitServices ==
  /\ opts = [DEFAULT_MODULE_OPTIONS EXCEPT !.setRequest = TRUE] @@ [hook |-> "none"]
  /\ async = FALSE
  /\ platform = "express"
  /\ guardSrc = "safetyNet"
  /\ instance \in Instances
  /\ pc = [p \in Reqs |-> "app"]
  /\ opsLeft = MaxOps
  /\ InitRest

NextServices ==
  \E p \in Reqs :
    \/ ServiceRun(p)
    \/ ServiceFill(p)
    \/ SingletonAccessor(p)

SpecServices == InitServices /\ [][NextServices]_vars

\* -------------------------------------------------------------- request data
\* Tasks that store a request with setRequest(request, type), for each adapter
\* type and for requests of either framework, a request that has only one of
\* the two Fastify fields, and no request at all; and that read the request
\* data back, inside and outside a scope.
StoredRequests(p) ==
  {Undefined, mkRequest(p, "express"), mkRequest(p, "fastify"),
   Obj([k \in {"raw"} |-> Str("raw-" \o ToString(p))])}
PropertyKeys == {<<"url">>, <<"headers", ".", "x-request-id">>}

\* ExpressAdapter / FastifyAdapter: (request as any)[key]
adapterGetProperty(req, key) == Prop(req, key)

\* (variant) a lookup that reads the request without testing that one is stored
getRequestPropertyUnguarded(st, amb, key) ==
  IF getRequest(st, amb) \in {Undefined, Null} THEN Err("TypeError")
  ELSE walk(adapterGetProperty(getRequest(st, amb), split(key)[1]), split(key), 2)
getRequestProperty(st, amb, key) ==
  IF falsy(getCachedAdapter(st, amb)) \/ falsy(getRequest(st, amb)) THEN Undefined
  ELSE IF \E i \in 1..Len(key) : key[i] = "."
       THEN walk(adapterGetProperty(getRequest(st, amb), split(key)[1]), split(key), 2)
       ELSE adapterGetProperty(getRequest(st, amb), split(key)[1])

\* contextService.run(callback)
RequestRun(p) ==
  LET s == Len(stores) + 1
  IN /\ Called(p, Call("run", "", <<>>, Ambient(p), Undefined, EmptyMap))
     /\ stores' = Append(stores, newStore(EmptyMap))
     /\ stack' = [stack EXCEPT ![p] = Append(@, Scope(s, "run"))]

\* contextService.setRequest(request, adapterType)
SetRequest(p) ==
  \E req \in StoredRequests(p), type \in AdapterTypes :
    LET amb == Ambient(p)
    IN IF setThrows(amb)
       THEN /\ Called(p, [Call("setRequest", type, <<>>, amb, Err("NoActiveContext"), EmptyMap)
                            EXCEPT !.val = req])
            /\ UNCHANGED <<stores, stack>>
       ELSE /\ Called(p, [Call("setRequest", type, <<>>, amb, Undefined, EmptyMap)
                            EXCEPT !.val = req])
            /\ stores' = setRequest(stores, amb, req, type)
            /\ stack' = stack

\* getRequest(), getAdapter(), getHeader(k), getHeaders(), getRequestProperty(k)
RequestRead(p) ==
  LET amb == Ambient(p)
  IN /\ \/ Called(p, Call("getRequest", "", <<>>, amb, getRequest(stores, amb), EmptyMap))
        \/ Called(p, Call("getAdapter", "", <<>>, amb, getCachedAdapter(stores, amb), EmptyMap))
        \/ Called(p, Call("getHeader", "X-Request-Id", <<>>, amb,
                          getHeader(stores, amb, "X-Request-Id"), EmptyMap))
        \/ Called(p, Call("getHeaders", "", <<>>, amb, getHeaders(stores, amb), EmptyMap))
        \/ \E key \in PropertyKeys :
             Called(p, Call("getRequestProperty", "", key, amb,
                            getRequestProperty(stores, amb, key), EmptyMap))
     /\ UNCHANGED <<stores, stack>>

InitRequest ==
  /\ opts = [DEFAULT_MODULE_OPTIONS EXCEPT !.setRequest = TRUE] @@ [hook |-> "none"]
  /\ async = FALSE
  /\ platform = "express"
  /\ guardSrc = "safetyNet"
  /\ instance = NoInstance
  /\ pc = [p \in Reqs |-> "app"]
  /\ opsLeft = MaxOps
  /\ InitRest

NextRequest ==
  \E p \in Reqs :
    \/ RequestRun(p)
    \/ SetRequest(p)
    \/ RequestRead(p)

SpecRequest == InitRequest /\ [][NextRequest]_vars

\* ------------------------------------------------------------ keys and paths
\* A key of the store is any string, one that contains dots included.  Tasks
\* store values under such keys and read them back with get(key), with
\* getByPath(key) and with @ContextValue(key); the singleton is initialized.
KeyPaths == {<<"x">>, <<"x", ".", "a">>, <<"tenant", ".", "id">>}

\* the string whose characters are the tokens of a path
RECURSIVE joined(_)
joined(path) == IF path = <<>> THEN "" ELSE Head(path) \o joined(Tail(path))

\* contextService.set(key, value)
KeySet(p) ==
  \E path \in KeyPaths, value \in AppValues(p) :
    LET amb == Ambient(p)
    IN IF setThrows(amb)
       THEN /\ Called(p, [Call("set", joined(path), path, amb, Err("NoActiveContext"), EmptyMap)
                            EXCEPT !.val = value])
            /\ UNCHANGED <<stores, stack>>
       ELSE /\ Called(p, [Call("set", joined(path), path, amb, Undefined, EmptyMap)
                            EXCEPT !.val = value])
            /\ stores' = set(stores, amb, joined(path), value)
            /\ stack' = stack

\* contextService.get(key), contextService.getByPath(key), @ContextValue(key)
KeyRead(p) ==
  \E path \in KeyPaths :
    LET amb == Ambient(p)
        key == joined(path)
    IN /\ \/ Called(p, Call("get", key, path, amb, get(stores, amb, key), EmptyMap))
          \/ Called(p, Call("getByPath", key, path, amb, getByPath(stores, amb, path), EmptyMap))
          \/ Called(p, Call("ContextValue", key, path, amb,
                            ContextValue(instance, stores, amb, path), EmptyMap))
       /\ UNCHANGED <<stores, stack>>

InitKeys ==
  /\ opts = [DEFAULT_MODULE_OPTIONS EXCEPT !.setRequest = TRUE] @@ [hook |-> "none"]
  /\ async = FALSE
  /\ platform = "express"
  /\ guardSrc = "safetyNet"
  /\ instance = moduleService
  /\ pc = [p \in Reqs |-> "app"]
  /\ opsLeft = MaxOps
  /\ InitRest

NextKeys ==
  \E p \in Reqs :
    \/ RequestRun(p)
    \/ KeySet(p)
    \/ KeyRead(p)

SpecKeys == InitKeys /\ [][NextKeys]_vars

\* ================================================================== claims
\* What task p writes: its own values, and the strings inside its objects
OwnValues(p) == AppValues(p) \cup {Str("n-" \o ToString(p))}
\* Everything a read made by task q now would return
Observed(q) ==
  {get(stores, Ambient(q), k) : k \in AppKeys}
    \cup {getByPath(stores, Ambient(q), path) : path \in AppPaths}
    \cup {getAll(stores, Ambient(q))[k] : k \in DOMAIN getAll(stores, Ambient(q))}
ReadOps == {"get", "getByPath"}
\* the step is an engine call, or a return from run, made by task q
CallBy(q) == opsLeft' # opsLeft /\ last'.req = q
StepBy(q) == CallBy(q) \/ stack'[q] # stack[q]

\* C1: no cross-talk.  Whatever the interleaving of the tasks' steps, no read
\* (get, has, getByPath, getAll) made in the scope of one task returns a value
\* that another task wrote with set, a key is present in a scope only with a
\* value the scope's own task wrote, and every run / runAsync call has a store
\* of its own.
NoCrossTalk ==
  /\ \A p \in Reqs : \A q \in Reqs \ {p} :
       /\ Observed(q) \cap OwnValues(p) = {}
       /\ \A i \in 1..Len(stack[p]) : \A j \in 1..Len(stack[q]) :
            stack[p][i].s # stack[q][j].s
  /\ \A q \in Reqs :
       /\ \A k \in AppKeys :
            has(stores, Ambient(q), k) => get(stores, Ambient(q), k) \in OwnValues(q)
       /\ \A i \in 1..Len(stack[q]) : \A j \in 1..Len(stack[q]) :
            i # j => stack[q][i].s # stack[q][j].s
  /\ (last.op \in ReadOps /\ last.res # Undefined) => last.res \in OwnValues(last.req)
  /\ last.op = "getAll" => \A k \in DOMAIN last.all : last.all[k] \in OwnValues(last.req)

\* two tasks are inside scopes of their own, one has set x, and the other has
\* just read x in its scope
NoCrossTalkWitness ==
  \E p \in Reqs : \E q \in Reqs \ {p} :
    /\ isActive(Ambient(p)) /\ isActive(Ambient(q))
    /\ get(stores, Ambient(p), "x") \in AppValues(p)
    /\ last.req = q /\ last.op = "get" /\ last.key = "x" /\ last.amb = Ambient(q)
    /\ last.res = Undefined

\* C2: correct scope on resumption.  A step of another task (opening a scope,
\* writing in it, leaving it) changes neither the store that is ambient for
\* task p nor anything p reads, and a value p sets is what p's later code
\* reads.
ResumesInOwnScope ==
  [][\A p \in Reqs :
       /\ (\E q \in Reqs \ {p} : StepBy(q)) =>
            /\ getStore(Ambient(p))' = getStore(Ambient(p))
            /\ \A k \in AppKeys : get(stores, Ambient(p), k)' = get(stores, Ambient(p), k)
       /\ \A k \in AppKeys :
            (CallBy(p) /\ last'.op = "set" /\ last'.key = k /\ isActive(Ambient(p))) =>
              get(stores, Ambient(p), k)' = last'.val
    ]_vars

\* a task set a value in its scope after a sibling opened a later scope: the
\* value is read in the task's scope and absent from the sibling's
ResumesInOwnScopeWitness ==
  /\ last.op = "set" /\ last.res = Undefined
  /\ \E q \in Reqs \ {last.req} :
       /\ Ambient(q) > last.amb
       /\ Ambient(last.req) = last.amb
       /\ get(stores, Ambient(last.req), last.key) = last.val
       /\ get(stores, Ambient(q), last.key) = Undefined

\* C8: writing without a scope is an error.  A set made when no scope is
\* ambient ends with the error NoActiveContext and changes nothing: no store is
\* created or written, no scope is opened, and every read the caller makes next
\* still finds nothing.
SetOutsideScopeFails ==
  [][\A p \in Reqs :
       (CallBy(p) /\ last'.op = "set" /\ ~isActive(Ambient(p))) =>
         /\ last'.res = Err("NoActiveContext")
         /\ stores' = stores /\ stack' = stack
         /\ ~isActive(Ambient(p))'
         /\ \A k \in AppKeys : get(stores, Ambient(p), k)' = Undefined
                                /\ ~has(stores, Ambient(p), k)'
    ]_vars

\* a set was made outside every scope, while another task's scope exists
SetOutsideScopeFailsWitness ==
  /\ last.op = "set" /\ last.amb = NoStore
  /\ last.res = Err("NoActiveContext")
  /\ stores # <<>>
  /\ get(stores, Ambient(last.req), last.key) = Undefined

\* The neutral result of an operation that has nothing to read
Neutral(call) ==
  CASE call.op \in {"get", "getByPath"} -> call.res = Undefined
    [] call.op \in {"has", "delete", "isActive"} -> call.res = False
    [] call.op = "getAll" -> call.all = EmptyMap
    [] call.op = "clear" -> call.res = Undefined
    [] OTHER -> TRUE
NeverRaise == {"get", "getByPath", "has", "delete", "getAll", "clear", "isActive"}

\* C9: reads never fail.  With no scope ambient, get and getByPath return
\* undefined, has and delete return false, getAll returns an empty record,
\* clear does nothing and isActive is false; inside a scope, get of a key that
\* is absent returns undefined and has / delete of it return false.  None of
\* these calls ends with an error, and delete and clear outside a scope leave
\* every store as it was.
ReadsNeverFail ==
  [][\A p \in Reqs :
       (CallBy(p) /\ last'.op \in NeverRaise) =>
         /\ last'.res.t # "error"
         /\ ~isActive(Ambient(p)) =>
              Neutral(last') /\ stores' = stores /\ stack' = stack
         /\ (isActive(Ambient(p)) /\ last'.op \in {"get", "has", "delete"}
               /\ ~has(stores, Ambient(p), last'.key)) =>
              Neutral(last')
    ]_vars

\* a get was made outside every scope while another task holds the key in its
\* scope
ReadsNeverFailWitness ==
  /\ last.op = "get" /\ last.amb = NoStore /\ last.res = Undefined
  /\ \E q \in Reqs \ {last.req} : has(stores, Ambient(q), last.key)

\* ------------------------------------------------------- request pipeline
\* initializer `by` opened a scope for request p / the store of that scope
openedBy(p, by) == \E i \in 1..Len(opened[p]) : opened[p][i].by = by
storeOf(p, by) == opened[p][CHOOSE i \in 1..Len(opened[p]) : opened[p][i].by = by].s
\* the stages that run after the middleware called next()
AfterMw == {"guard", "guardWait", "handler"}
\* hook kinds of a setup function that is synchronous or returns a promise
SyncOrPromise == {"sync", "promise"}
nonEmptyString(v) == v.t = "string" /\ v.s # ""

\* C3: middleware-style initialization wraps the rest of request handling.
\* For a request the middleware handled, every stage that next() triggers runs
\* with the middleware's store ambient, and when the setup hook is synchronous
\* or returns a promise the handler's get('requestId') is the value the hook
\* stored: the x-request-id header when the request has one, else a generated
\* non-empty string.
MiddlewareWrapsHandling ==
  \A p \in Reqs :
    openedBy(p, "mw") =>
      /\ pc[p] \in AfterMw => Ambient(p) = storeOf(p, "mw")
      /\ seen[p].ran =>
           /\ seen[p].active /\ seen[p].amb = storeOf(p, "mw")
           /\ opts.hook \in SyncOrPromise =>
                /\ seen[p].requestId = get(stores, storeOf(p, "mw"), "requestId")
                /\ nonEmptyString(seen[p].requestId)
                /\ withHeader(p) =>
                     seen[p].requestId = Prop(Prop(request[p], "headers"), "x-request-id")

\* the handlers of a request with the header and of one without it both ran
\* behind the middleware with a hook that returns a promise
MiddlewareWrapsHandlingWitness ==
  /\ opts.hook = "promise"
  /\ \E p \in Reqs : \E q \in Reqs :
       /\ withHeader(p) /\ ~withHeader(q)
       /\ openedBy(p, "mw") /\ openedBy(q, "mw")
       /\ seen[p].ran /\ seen[q].ran
       /\ seen[p].requestId = Str("abc-" \o ToString(p))
       /\ seen[q].requestId = Str("generated")

\* C4: guard-style initialization as the primary initializer wraps the rest of
\* request handling.  When no scope is ambient on entry to canActivate, the
\* handler that runs after the promise resolves true runs with the guard's
\* store ambient: isActive() is true, and it reads the request and the value
\* the setup hook stored.
GuardWrapsHandling ==
  \A p \in Reqs :
    (openedBy(p, "guard") /\ ~openedBy(p, "mw") /\ seen[p].ran) =>
      /\ seen[p].active /\ seen[p].amb = storeOf(p, "guard")
      /\ opts.setRequest => seen[p].request = request[p]
      /\ opts.hook \in {"sync", "promise", "thenable"} =>
           seen[p].requestId = hookValue(request[p])

\* C5: interceptor-style initialization wraps the handler invocation.  For a
\* request the interceptor handled, the handler runs with the interceptor's
\* store ambient: isActive() is true, and it reads the request (when setRequest
\* is on) and the value the setup hook stored.
InterceptorWrapsHandler ==
  \A p \in Reqs :
    openedBy(p, "icpt") =>
      /\ pc[p] = "handler" => Ambient(p) = storeOf(p, "icpt")
      /\ seen[p].ran =>
           /\ seen[p].active /\ seen[p].amb = storeOf(p, "icpt")
           /\ opts.setRequest => seen[p].request = request[p]
           /\ ~opts.setRequest => seen[p].request = Undefined
           /\ opts.hook \in {"sync", "promise", "thenable"} =>
                seen[p].requestId = hookValue(request[p])
           /\ "handle()" \in {signals[p][i] : i \in 1..Len(signals[p])}

\* the handler ran behind the interceptor after a hook that suspended, and
\* read the request and the hook's value
InterceptorWrapsHandlerWitness ==
  \E p \in Reqs :
    /\ openedBy(p, "icpt") /\ seen[p].ran
    /\ opts.hook = "promise" /\ opts.setRequest
    /\ seen[p].request = request[p]
    /\ seen[p].requestId = Str("generated")

\* C6: idempotent guard composition.  Whenever a scope is already ambient
\* when canActivate runs, it returns true without opening a scope, without
\* calling setRequest, without invoking the setup hook, and leaves every entry
\* of every store as it was.
GuardIsIdempotent ==
  [][\A p \in Reqs :
       (pc[p] = "guard" /\ pc'[p] # "guard" /\ isActive(Ambient(p))) =>
         /\ stores' = stores
         /\ opened' = opened
         /\ hooks' = hooks
         /\ signals'[p] = Append(signals[p], "return true")
    ]_vars

\* C7: the setup hook is invoked at most once per request, whatever the module
\* configuration.
SetupHookAtMostOnce == \A p \in Reqs : Len(hooks[p]) <= 1

\* the calls of next, and the exceptions that left use(), for request p
Signals(p) == {signals[p][i] : i \in 1..Len(signals[p])}
\* the setup hook called by the middleware for request p has failed
mwHookFailed(p) ==
  \E i \in 1..Len(hooks[p]) :
    hooks[p][i].by = "mw" /\ hooks[p][i].st \in {"threw", "rejected"}

\* C10: middleware-style failure propagation.  If the setup hook throws, or
\* the awaitable it returned rejects, while the middleware handles a request,
\* next is never called without an error for that request, and once use() and
\* its callbacks are done the failure has reached the framework (next(err), or
\* the exception that left use()).
MiddlewarePropagatesFailure ==
  \A p \in Reqs :
    mwHookFailed(p) =>
      /\ "next()" \notin Signals(p)
      /\ pc[p] # "mwWait" => Signals(p) \cap {"next(err)", "throw"} # {}

\* the setup hook called by initializer `by` for request p has failed
hookFailed(p, by) ==
  \E i \in 1..Len(hooks[p]) :
    hooks[p][i].by = by /\ hooks[p][i].st \in {"threw", "rejected"}

\* C11: guard-style failure propagation.  If the setup hook called by
\* canActivate throws, or the awaitable it returned rejects, the promise
\* canActivate returned never resolves true for that request, and once the
\* guard's callback has resumed the promise is rejected.
GuardPropagatesFailure ==
  \A p \in Reqs :
    hookFailed(p, "guard") =>
      /\ "resolve(true)" \notin Signals(p)
      /\ pc[p] # "guardWait" => ("reject" \in Signals(p) /\ pc[p] = "error")
      /\ ~seen[p].ran

\* the guard's promise was rejected after a thenable that is no native promise
\* rejected
GuardPropagatesFailureWitness ==
  \E p \in Reqs :
    /\ opts.hook = "thenableReject" /\ opts.setupType = "guard"
    /\ hookFailed(p, "guard")
    /\ "reject" \in Signals(p)

\* C12: interceptor-style error propagation.  If the setup hook called by
\* intercept throws or rejects, the returned observable errors and
\* next.handle() is never invoked; if the handler's observable errors, the
\* returned observable errors with that error; in neither case does the
\* returned observable complete.
InterceptorPropagatesErrors ==
  \A p \in Reqs :
    /\ hookFailed(p, "icpt") =>
         /\ "handle()" \notin Signals(p) /\ ~seen[p].ran
         /\ "subscriber.complete" \notin Signals(p)
         /\ pc[p] # "icptWait" => "subscriber.error(error)" \in Signals(p)
    /\ (openedBy(p, "icpt") /\ pc[p] = "handlerError") =>
         /\ signals[p][Len(signals[p])] = "subscriber.error(err)"
         /\ "subscriber.complete" \notin Signals(p)

\* behind the interceptor and a hook that suspended, the handler has thrown
\* and the returned observable has errored with the handler's error
InterceptorPropagatesErrorsWitness ==
  /\ opts.hook = "thenable"
  /\ \E p \in Reqs :
       /\ openedBy(p, "icpt") /\ pc[p] = "handlerError"
       /\ "subscriber.error(err)" \in Signals(p)

\* what each initializer signals the framework with
MwSignals == {"next()", "next(err)", "throw"}
GuardSignals == {"return true", "resolve(true)", "reject"}
IcptSignals == {"subscriber.complete", "subscriber.error(err)", "subscriber.error(error)"}

\* C13: initializers never hang.  Whatever the setup hook does (absent,
\* returns, throws, or returns an awaitable that settles), a request that
\* reached the middleware leads to next being called or use throwing, one that
\* reached the guard leads to the returned promise settling, and one that
\* reached the interceptor leads to the returned observable completing or
\* erroring.
InitializersNeverHang ==
  \A p \in Reqs :
    /\ (pc[p] \in {"mw", "mwWait"}) ~> (Signals(p) \cap MwSignals # {})
    /\ (pc[p] \in {"guard", "guardWait"}) ~> (Signals(p) \cap GuardSignals # {})
    /\ (pc[p] \in {"icpt", "icptWait"}) ~> (Signals(p) \cap IcptSignals # {})

\* the middleware waited for a promise that rejected, and called next(err)
InitializersNeverHangWitness ==
  \E p \in Reqs :
    /\ opts.hook = "reject" /\ hookFailed(p, "mw")
    /\ "next(err)" \in Signals(p)

\* C14: getAll() never shows the reserved keys.  In every state of every
\* scope, after any sequence of set, delete, clear and setRequest calls, the
\* record getAll() returns has none of the three reserved internal keys.
GetAllHidesReserved ==
  /\ \A p \in Reqs : DOMAIN getAll(stores, Ambient(p)) \cap ReservedKeys = {}
  /\ DOMAIN last.all \cap ReservedKeys = {}

\* getAll() was called in a scope that holds the three reserved entries and a
\* user entry, and returned the user entry
GetAllHidesReservedWitness ==
  /\ last.op = "getAll" /\ last.amb # NoStore
  /\ ReservedKeys \subseteq DOMAIN stores[last.amb]
  /\ "x" \in DOMAIN last.all

\* C15: getAll() is complete over user entries.  Inside a scope, every key
\* that is present and is not one of the three reserved internal keys is in
\* the record getAll() returns, with the value get() returns for it.
GetAllIsComplete ==
  \A p \in Reqs :
    isActive(Ambient(p)) =>
      \A k \in DOMAIN stores[Ambient(p)] \ ReservedKeys :
        /\ k \in DOMAIN getAll(stores, Ambient(p))
        /\ getAll(stores, Ambient(p))[k] = get(stores, Ambient(p), k)

\* the step is a call of the static method `op`
StaticStep(op) == opsLeft' # opsLeft /\ last'.op = op

\* C16: looking the singleton up before initialization is an error.  Before
\* any onModuleInit has run, getInstance() raises NotInitialized and
\* hasInstance() is false; when onModuleInit has run on an instance,
\* hasInstance() is true and getInstance() returns that instance.
SingletonLookup ==
  [][/\ (instance = NoInstance /\ StaticStep("getInstance")) =>
          last'.res = Err("NotInitialized")
     /\ (instance = NoInstance /\ StaticStep("hasInstance")) => last'.res = False
     /\ \A i \in Instances :
          /\ (StaticStep("onModuleInit") /\ last'.val = Ref(i)) =>
               (hasInstance(instance)' /\ getInstance(instance)' = Ref(i))
          /\ (instance = i /\ StaticStep("getInstance")) => last'.res = Ref(i)
          /\ (instance = i /\ StaticStep("hasInstance")) => last'.res = True
    ]_vars

\* getInstance() was called before any onModuleInit and raised
SingletonLookupWitness ==
  /\ last.op = "getInstance" /\ last.res = Err("NotInitialized")
  /\ instance = NoInstance
  /\ stores # <<>>

\* C17: the singleton handle is write-once.  Once an initialization has set
\* it, no step (onModuleInit on another instance included) changes the
\* instance getInstance() returns.
SingletonWriteOnce ==
  [][instance # NoInstance => getInstance(instance)' = getInstance(instance)]_vars

\* the store that becomes ambient for task p when its innermost run returns
Outer(p) ==
  IF Len(stack[p]) >= 2 THEN stack[p][Len(stack[p]) - 1].s ELSE NoStore
\* the step is the return of a run / runAsync call of task p
ReturnBy(p) == last'.op = "returned" /\ last'.req = p /\ opsLeft' = opsLeft /\ last' # last
RunOps == {"run", "runAsync"}
WriteOps == {"set", "delete", "clear"}
\* every store but s is as it was
OthersUnchanged(s) ==
  /\ Len(stores') = Len(stores)
  /\ \A i \in 1..Len(stores) : i # s => stores'[i] = stores[i]

\* C18: nested run.  A run made inside an outer scope makes a new, empty store
\* ambient and leaves the outer stores as they are; the writes made inside
\* the inner scope change the inner store only; when the inner call returns,
\* the outer scope is ambient again and no store has changed.
NestedRunShadows ==
  [][\A p \in Reqs :
       /\ (CallBy(p) /\ last'.op \in RunOps) =>
            /\ Len(stores') = Len(stores) + 1
            /\ Ambient(p)' = Len(stores) + 1
            /\ getAll(stores, Ambient(p))' = EmptyMap
            /\ \A i \in 1..Len(stores) : stores'[i] = stores[i]
       /\ (CallBy(p) /\ last'.op \in WriteOps) =>
            /\ OthersUnchanged(Ambient(p))
            /\ Ambient(p)' = Ambient(p)
       /\ (stack[p] # <<>> /\ stack'[p] # stack[p] /\ ~(CallBy(p) /\ last'.op \in RunOps)) =>
            /\ Ambient(p)' = Outer(p)
            /\ stores' = stores
    ]_vars

\* a task set x in an outer scope and again in an inner one; the inner call
\* has returned and the outer scope is ambient with its own value of x
NestedRunShadowsWitness ==
  \E p \in Reqs :
    /\ last.op = "returned" /\ last.req = p
    /\ Len(stack[p]) = 1 /\ Ambient(p) # last.amb
    /\ get(stores, Ambient(p), "x") \in AppValues(p)
    /\ get(stores, last.amb, "x") \in AppValues(p) \ {get(stores, Ambient(p), "x")}

\* C19: a scope is never observable outside its creator's extent.  A task
\* that is inside no run callback (it never called run, or its outermost run
\* has returned) sees isActive() false and absent values, whatever scopes other
\* tasks hold; when the outermost run of a task returns, no scope is ambient
\* for the task any more.
ScopeEndsWithExtent ==
  [][\A p \in Reqs :
       /\ (ReturnBy(p) /\ Len(stack[p]) = 1) =>
            /\ ~isActive(Ambient(p))'
            /\ \A k \in AppKeys : get(stores, Ambient(p), k)' = Undefined
                                   /\ ~has(stores, Ambient(p), k)'
            /\ getAll(stores, Ambient(p))' = EmptyMap
       /\ (stack[p] = <<>> /\ CallBy(p) /\ last'.op \in NeverRaise) =>
            /\ last'.amb = NoStore
            /\ Neutral(last')
    ]_vars

\* the outermost run of a task has returned, its store still holds the value
\* the task set, and another task is inside a scope
ScopeEndsWithExtentWitness ==
  \E p \in Reqs : \E q \in Reqs \ {p} :
    /\ last.op = "returned" /\ last.req = p /\ stack[p] = <<>>
    /\ get(stores, last.amb, "x") \in AppValues(p)
    /\ isActive(Ambient(q))

\* The reference dot-path walk.  The segments of a path are what lies between
\* its dots; the first is read with get, each further one by property access,
\* and the answer is absent (undefined) as soon as the value to read a
\* property of is null, undefined or missing.
Dots(path) == {i \in 1..Len(path) : path[i] = "."}
\* the position of the k-th dot; 0 before the first, Len + 1 after the last
DotAt(path, k) ==
  IF k = 0 THEN 0
  ELSE IF k > Cardinality(Dots(path)) THEN Len(path) + 1
  ELSE CHOOSE i \in Dots(path) : Cardinality({j \in Dots(path) : j <= i}) = k
RECURSIVE Concat(_)
Concat(chars) == IF chars = <<>> THEN "" ELSE Head(chars) \o Concat(Tail(chars))
Segment(path, k) == Concat(SubSeq(path, DotAt(path, k - 1) + 1, DotAt(path, k) - 1))
RECURSIVE RefValue(_, _, _, _)
RefValue(st, amb, path, n) ==
  IF n = 1 THEN get(st, amb, Segment(path, 1))
  ELSE LET inner == RefValue(st, amb, path, n - 1)
       IN IF inner \in {Undefined, Null} THEN Undefined
          ELSE Prop(inner, Segment(path, n))
RefWalk(st, amb, path) == RefValue(st, amb, path, Cardinality(Dots(path)) + 1)

\* C20: getByPath is the reference dot-path walk.  For every path (empty,
\* with leading, trailing or double dots, longer than the value is deep) and
\* every scope, getByPath returns what the reference walk returns, and it never
\* throws.
GetByPathIsReferenceWalk ==
  last.op = "getByPath" =>
    /\ last.res.t # "error"
    /\ last.res = RefWalk(stores, last.amb, last.path)

\* C21: path-based exclusion.  With setupType 'middleware', a request whose
\* route matches an exclude pattern gets no context initialization at all: no
\* scope is opened for it, its request object is stored nowhere, the setup
\* hook is not invoked for it, and its handler runs with isActive() false.
ExclusionSkipsInitialization ==
  \A p \in Reqs :
    (opts.setupType = "middleware" /\ excluded[p]) =>
      /\ opened[p] = <<>>
      /\ hooks[p] = <<>>
      /\ \A s \in 1..Len(stores) : getRequest(stores, s) # request[p]
      /\ seen[p].ran => (~seen[p].active /\ seen[p].request = Undefined)

\* the initializer a setupType names, as the model tags scopes and hooks
kindOf(setupType) ==
  CASE setupType = "middleware" -> "mw"
    [] setupType = "guard" -> "guard"
    [] setupType = "interceptor" -> "icpt"

\* C22: module wiring selects the initializer by configuration.  For every
\* resolved configuration, given to forRoot or to forRootAsync, 'middleware'
\* applies the context middleware, 'guard' registers only the guard,
\* 'interceptor' registers the interceptor and applies no middleware, and
\* every request scope is opened by the component of the configured kind.
WiringSelectsInitializer ==
  /\ opts.setupType = "middleware" => hasMiddleware
  /\ opts.setupType = "guard" => (hasGuard /\ ~hasMiddleware /\ ~hasInterceptor)
  /\ opts.setupType = "interceptor" => (hasInterceptor /\ ~hasMiddleware)
  /\ \A p \in Reqs : \A i \in 1..Len(opened[p]) :
       opened[p][i].by = kindOf(opts.setupType)

\* C23: reserved keys are namespaced apart from user keys.  No set(k, v) or
\* delete(k) that application code makes with a string key changes what
\* getRequest(), getAdapter() or getAdapterType() return in that scope.
ReservedKeysAreApart ==
  [][\A p \in Reqs :
       (CallBy(p) /\ last'.op \in {"set", "delete"}) =>
         LET amb == last'.amb
         IN /\ getRequest(stores', amb) = getRequest(stores, amb)
            /\ getCachedAdapter(stores', amb) = getCachedAdapter(stores, amb)
            /\ getAdapterType(stores', amb) = getAdapterType(stores, amb)]_vars

\* the accessor calls that read the request, and all accessor calls
RequestAccessors == {"Req", "Headers", "Header", "RequestKey"}
Accessors == RequestAccessors \cup {"ContextValue"}
\* the last call was accessor `op`, made with no context to read from: the
\* singleton uninitialized, or initialized with no scope ambient
NoContextCall(ops) ==
  /\ last.op \in ops
  /\ (instance = NoInstance \/ ~isActive(last.amb))
\* what the accessor of the call extracts from the native request alone
FromNative(call) ==
  CASE call.op = "Req" -> call.val
    [] call.op \in {"Headers", "Header"} ->
         IF call.key = "" THEN Prop(call.val, "headers")
         ELSE Prop(Prop(call.val, "headers"), toLowerCase(call.key))
    [] call.op = "RequestKey" -> resolvePath(call.val, call.path)

\* C24: two-tier accessor resolution.  Whenever the singleton is
\* uninitialized, or initialized with no scope ambient, Req, Headers (with
\* and without a header name), Header and RequestKey return the value
\* extracted from the framework-native request, the same in both cases.
AccessorsFallBackToNative ==
  (NoContextCall(RequestAccessors) /\ last.val # Undefined) =>
    last.res = FromNative(last)

\* C25: accessors never throw for the no-context case.  With the singleton
\* uninitialized or no scope ambient, Req, Headers, Header, RequestKey and
\* ContextValue return a value, absent or an empty mapping and raise
\* nothing, also when the native execution context yields no request object.
AccessorsNeverThrow ==
  NoContextCall(Accessors) => last.res.t # "error"

\* the field is present in the object and its value is not undefined
Defined(value, field) ==
  value.t = "object" /\ field \in DOMAIN value.f /\ value.f[field].t # "undefined"

\* C26: detectAdapterType(request) returns 'fastify' exactly when both the raw
\* and the server field of the request are defined, and 'express' for every
\* other input: null, undefined, and requests with only one of the two
\* fields; the request it was given is left as it was.
DetectsFastifyExactly ==
  [][(last.op = "calling" /\ last'.op = "detectAdapterType") =>
       /\ last'.res = Str(IF Defined(last.val, "raw") /\ Defined(last.val, "server")
                          THEN "fastify" ELSE "express")
       /\ last'.val = last.val]_vars

\* detection answered 'express' for a request that has only the raw field
DetectsFastifyExactlyWitness ==
  /\ last.op = "detectAdapterType"
  /\ Defined(last.val, "raw") /\ ~Defined(last.val, "server")
  /\ last.res = Str("express")

\* C27: configuration defaults.  Fields that the caller did not supply
\* resolve to their defaults, so that the system behaves as isGlobal = true,
\* adapter = 'auto', setupType = 'middleware', setRequest = true; supplied
\* fields keep their values; the record passed in is not modified.
DefaultsFillUnsupplied ==
  [][(last.op = "calling" /\ last'.op \in {"forRoot", "forRootAsync"}) =>
       LET passed == last.all
       IN /\ "isGlobal" \notin DOMAIN passed => last'.res = True
          /\ "adapter" \notin DOMAIN passed => opts'.adapter = "auto"
          /\ "setupType" \notin DOMAIN passed =>
               (opts'.setupType = "middleware" /\ hasMiddleware')
          /\ "setRequest" \notin DOMAIN passed => opts'.setRequest = TRUE
          /\ \A k \in DOMAIN passed \ {"isGlobal"} : opts'[k] = passed[k]
          /\ "isGlobal" \in DOMAIN passed => last'.res = Bool(passed.isGlobal)
          /\ last'.all = passed]_vars

\* forRoot({ setupType: 'guard' }) resolved: the guard setup was kept and the
\* other fields took their defaults
DefaultsFillUnsuppliedWitness ==
  /\ last.op = "forRoot"
  /\ DOMAIN last.all = {"setupType"} /\ last.all.setupType = "guard"
  /\ opts.setupType = "guard" /\ opts.adapter = "auto" /\ opts.setRequest = TRUE
  /\ last.res = True

\* the plain key-to-value map that the entries of store s make up
MapOf(st, s) == st[s]
MapGet(m, k) == IF k \in DOMAIN m THEN m[k] ELSE Undefined

\* C28: within one scope the store refines a plain key-to-value map.  After
\* any sequence of set, delete and clear calls, get(k) returns the value of
\* the most recent set(k, v) that no delete(k) or clear() followed, has(k) is
\* true exactly when there is such a set, delete(k) returns true exactly when
\* k was present and leaves k absent, and clear() removes every entry, the
\* reserved ones too, while the scope stays ambient.  Stated step by step:
\* every call changes, or reads, the map as the same call on a plain map.
StoreRefinesMap ==
  [][\A p \in Reqs :
       (CallBy(p) /\ isActive(Ambient(p))) =>
         LET s == Ambient(p)
             m == MapOf(stores, s)
             n == MapOf(stores', s)
             c == last'
         IN /\ c.op = "set" =>
                 n = [k \in DOMAIN m \cup {c.key} |-> IF k = c.key THEN c.val ELSE m[k]]
            /\ c.op = "delete" =>
                 /\ c.res = Bool(c.key \in DOMAIN m)
                 /\ n = [k \in DOMAIN m \ {c.key} |-> m[k]]
            /\ c.op = "clear" => (DOMAIN n = {} /\ isActive(Ambient(p))' /\ Ambient(p)' = s)
            /\ c.op = "get" => (c.res = MapGet(m, c.key) /\ n = m)
            /\ c.op = "has" => (c.res = Bool(c.key \in DOMAIN m) /\ n = m)]_vars

\* delete(k) found k in a scope that also holds the request: it returned
\* true, k is gone and the other entries are still there
StoreRefinesMapWitness ==
  \E p \in Reqs :
    /\ last.op = "delete" /\ last.req = p /\ isActive(Ambient(p))
    /\ last.res = True
    /\ last.key \notin DOMAIN MapOf(stores, Ambient(p))
    /\ MapGet(MapOf(stores, Ambient(p)), INTERNAL_KEYS.REQUEST) = request[p]

\* the signal with which initializer `by` lets the framework go on
continuation(by) ==
  CASE by = "mw" -> "next()"
    [] by = "guard" -> "resolve(true)"
    [] by = "icpt" -> "handle()"
\* initializer `by` signals its continuation for request p in this step
Continues(p, by) ==
  /\ Len(signals'[p]) = Len(signals[p]) + 1
  /\ signals'[p][Len(signals'[p])] = continuation(by)

\* C29: the next stage starts only after the setup hook has settled.  In
\* every initializer style, when the hook returns an awaitable (any thenable,
\* not only a native Promise), the continuation (next, resolve(true),
\* next.handle()) is not invoked before that awaitable has fulfilled.
HookSettlesFirst ==
  [][\A p \in Reqs : \A by \in {"mw", "guard", "icpt"} :
       (Continues(p, by) /\ opts.hook \in PendingKinds) =>
         \E i \in 1..Len(hooks'[p]) :
           hooks'[p][i].by = by /\ hooks'[p][i].st = "fulfilled"]_vars

\* the adapter that fits the requests of the platform
platformAdapter == IF platform = "fastify" THEN fastifyAdapter ELSE expressAdapter

\* C30: the request is stored before the hook runs.  In every initializer
\* style the setup hook is invoked in each scope that is opened; when
\* setRequest is not disabled, the scope holds the request object and the
\* resolved adapter at the moment the hook is invoked, so getRequest() inside
\* the hook returns the inbound request; when setRequest is false the hook
\* still runs and getRequest() returns absent.
RequestStoredBeforeHook ==
  \A p \in Reqs :
    /\ \A i \in 1..Len(hooks[p]) :
         IF opts.setRequest # FALSE
         THEN hooks[p][i].request = request[p] /\ hooks[p][i].adapter = platformAdapter
         ELSE hooks[p][i].request = Undefined
    /\ opts.hook # "none" =>
         \A j \in 1..Len(opened[p]) :
           \E i \in 1..Len(hooks[p]) :
             hooks[p][i].by = opened[p][j].by /\ hooks[p][i].amb = opened[p][j].s

\* the preHandler hook invoked the setup hook, which found the inbound
\* request through getRequest() and has fulfilled since
RequestStoredBeforeHookWitness ==
  \E p \in Reqs : \E i \in 1..Len(hooks[p]) :
    /\ hooks[p][i].by = "hook"
    /\ hooks[p][i].request = request[p]
    /\ hooks[p][i].st = "fulfilled"

\* how many times the middleware invoked next, with or without an error
RECURSIVE countNext(_)
countNext(sigs) ==
  IF sigs = <<>> THEN 0
  ELSE (IF Head(sigs) \in {"next()", "next(err)"} THEN 1 ELSE 0) + countNext(Tail(sigs))
\* the middleware and its callbacks are done with request p
mwDone(p) ==
  /\ \E i \in 1..Len(opened[p]) : opened[p][i].by = "mw"
  /\ pc[p] \notin {"mw", "mwWait"}

\* C31: the middleware-style initializers invoke the framework's next
\* continuation exactly once per request on every path (no hook, synchronous
\* hook, hook promise fulfilled, hook promise rejected), also when the call
\* next() made after the hook promise fulfilled itself throws: never twice,
\* and once when the middleware is done.
NextExactlyOnce ==
  \A p \in Reqs :
    /\ countNext(signals[p]) <= 1
    /\ (mwDone(p) /\ opts.hook # "throw") => countNext(signals[p]) = 1

\* task p has just called run or runAsync with an initialStore
SeededBy(p) == CallBy(p) /\ last'.op \in {"run", "runAsync"}

\* C32: run and runAsync seed the new scope from initialValues by shallow
\* copy.  Every own entry of initialValues is readable with get inside the
\* callback, and no later set, delete or clear on the scope adds, removes or
\* replaces an entry of the caller's initialValues object.
SeedsByShallowCopy ==
  [][/\ \A p \in Reqs :
          SeededBy(p) =>
            \A k \in DOMAIN last'.all :
              /\ has(stores', Ambient(p)', k)
              /\ get(stores', Ambient(p)', k) = last'.all[k]
     /\ \A p \in Reqs : \A i \in 1..Len(opened'[p]) :
          stores'[opened'[p][i].init] = opened'[p][i].initial]_vars

\* a scope seeded with x has had x deleted or replaced by a set, and the
\* caller's object still has the entry it was given
SeedsByShallowCopyWitness ==
  \E p \in Reqs : \E i \in 1..Len(opened[p]) :
    /\ "x" \in DOMAIN opened[p][i].initial
    /\ Ambient(p) = opened[p][i].s
    /\ last.req = p /\ last.op \in {"set", "delete"} /\ last.key = "x"
    /\ get(stores, Ambient(p), "x") # opened[p][i].initial["x"]
    /\ stores[opened[p][i].init]["x"] = opened[p][i].initial["x"]

\* C33: a nested scope does not inherit from the outer scope.  Inside a run
\* invoked within another scope, the keys set in the outer scope, the stored
\* request and adapter among them, are absent unless they were passed
\* through initialValues: for get, has, getByPath, getAll and getRequest.
NestedScopeInheritsNothing ==
  [][\A p \in Reqs :
       (SeededBy(p) /\ isActive(Ambient(p))) =>
         /\ \A k \in Keys \ DOMAIN last'.all :
              /\ get(stores', Ambient(p)', k) = Undefined
              /\ ~has(stores', Ambient(p)', k)
              /\ getByPath(stores', Ambient(p)', <<k>>) = Undefined
              /\ k \notin DOMAIN getAll(stores', Ambient(p)')
         /\ INTERNAL_KEYS.REQUEST \notin DOMAIN last'.all =>
              getRequest(stores', Ambient(p)') = Undefined
         /\ getCachedAdapter(stores', Ambient(p)') = Undefined]_vars

\* a task has called run inside a scope that holds the request and x, passing
\* neither the request nor the adapter: the new scope has no request
NestedScopeInheritsNothingWitness ==
  \E p \in Reqs :
    /\ Len(stack[p]) = 2
    /\ last.req = p /\ last.op \in {"run", "runAsync"}
    /\ getRequest(stores, stack[p][1].s) = request[p]
    /\ has(stores, stack[p][1].s, "x")
    /\ DOMAIN last.all = {"x"}
    /\ getRequest(stores, Ambient(p)) = Undefined

\* the service through which the innermost scope of task p was opened
opener(p) == stack[p][Len(stack[p])].als

\* C34: the accessors that go through the process-wide singleton observe the
\* same ambient scope as the injected service that opened it.  However many
\* services have been initialized, what ContextValue, Req, Headers and
\* RequestKey return inside a request's scope is what they return when they
\* are resolved in the scope of the service that opened it.
SingletonSeesOpenersScope ==
  \A p \in Reqs :
    (last.req = p /\ stack[p] # <<>>) =>
      LET amb == alsStore(opener(p), p)
      IN /\ last.op = "ContextValue" =>
              last.res = ContextValue(instance, stores, amb, last.path)
         /\ last.op = "Req" => last.res = Req(instance, stores, amb, last.val)
         /\ last.op = "Headers" =>
              last.res = Headers(instance, stores, amb, headerArg(last.key), last.val)
         /\ last.op = "RequestKey" =>
              last.res = RequestKey(instance, stores, amb, last.path, last.val)

\* the promise of the preHandler hook has resolved and the framework is about
\* to run the stage that follows it
afterHook(p) ==
  /\ openedBy(p, "hook") /\ Len(opened[p]) = 1
  /\ "resolve()" \in Signals(p)
  /\ pc[p] \in {"guard", "icpt", "handler"}
\* the stage that follows the hook runs with the scope the hook opened
HookScopeStaysAmbient ==
  \A p \in Reqs : afterHook(p) => Ambient(p) = storeOf(p, "hook")
\* a setup hook that failed inside the preHandler hook rejects its promise
HookFailureRejects ==
  \A p \in Reqs :
    (/\ openedBy(p, "hook") /\ pc[p] # "hookWait"
     /\ \E i \in 1..Len(hooks[p]) :
          hooks[p][i].by = "hook" /\ hooks[p][i].st \in {"threw", "rejected"}) =>
      /\ "reject" \in Signals(p) /\ "resolve()" \notin Signals(p)
      /\ pc[p] = "error"

\* C35: createFastifyContextHook initializes request context for the request.
\* After the promise the hook returned resolves, the stages of handling that
\* request which the framework runs next execute with the scope the hook
\* opened ambient; if setRequest or the setup hook fails, the promise rejects
\* with that error.
FastifyHookInitializesRequest == HookScopeStaysAmbient /\ HookFailureRejects

\* the adapter the claim names for a request and an adapter type
selectedAdapter(type, req) ==
  IF type = "fastify" \/ (type = "auto" /\ detectAdapterType(req) = "fastify")
  THEN fastifyAdapter ELSE expressAdapter

\* C36: setRequest(request, type) inside a scope makes getRequest() return
\* that same request object and getAdapter() return the process-wide adapter
\* of the selected variant: the Fastify adapter when type is 'fastify', or when
\* type is 'auto' and detectAdapterType(request) is 'fastify', the Express
\* adapter otherwise.  The selection stores nothing on the request, and two
\* requests of the same variant are given the same adapter object.
SetRequestSelectsAdapter ==
  /\ (last.op = "setRequest" /\ last.amb # NoStore) =>
       /\ getRequest(stores, last.amb) = last.val
       /\ getCachedAdapter(stores, last.amb) = selectedAdapter(last.key, last.val)
       /\ getAdapterType(stores, last.amb) = Str(last.key)
  /\ \A a, b \in 1..Len(stores) :
       (/\ INTERNAL_KEYS.ADAPTER \in DOMAIN stores[a]
        /\ INTERNAL_KEYS.ADAPTER \in DOMAIN stores[b]
        /\ stores[a][INTERNAL_KEYS.ADAPTER].s = stores[b][INTERNAL_KEYS.ADAPTER].s) =>
         stores[a][INTERNAL_KEYS.ADAPTER] = stores[b][INTERNAL_KEYS.ADAPTER]

\* with type 'auto', one task stored a request that has only the raw field
\* and got the Express adapter, after another task stored a Fastify request
\* and got the Fastify adapter
SetRequestSelectsAdapterWitness ==
  /\ last.op = "setRequest" /\ last.amb # NoStore /\ last.key = "auto"
  /\ Prop(last.val, "raw") # Undefined /\ Prop(last.val, "server") = Undefined
  /\ getCachedAdapter(stores, last.amb) = expressAdapter
  /\ \E b \in 1..Len(stores) :
       /\ b # last.amb
       /\ getCachedAdapter(stores, b) = fastifyAdapter
       /\ getAdapterType(stores, b) = Str("auto")

RequestReaders == {"getRequest", "getAdapter", "getHeader", "getHeaders", "getRequestProperty"}
\* the value a reader of the request data returns for "nothing"
absent(op) == IF op = "getHeaders" THEN Obj(EmptyMap) ELSE Undefined
\* no scope is ambient, or setRequest was not called in the ambient scope
noStoredRequest(st, amb) == ~has(st, amb, INTERNAL_KEYS.REQUEST)

AccessorReadsByKey ==
  (/\ last.op \in {"getByPath", "ContextValue"}
   /\ has(stores, last.amb, last.key)) =>
    last.res = get(stores, last.amb, last.key)
====
